---- MODULE Spec2Model ----
(***************************************************************************)
(* Storage backends of static-nix-cache.                                   *)
(*                                                                         *)
(* The GitHub Releases backend (src/src/storage/github-releases.js) keeps  *)
(* narinfo files in a local directory and NAR files (plus a mirror of the  *)
(* narinfo files) as assets of one GitHub release.  Every `await` of the   *)
(* code is a point where other operations of the same process, and other   *)
(* jobs writing to the same release, can run.  An HTTP request is two      *)
(* steps: the service handles it (a Serve action) and, later, the caller   *)
(* resumes with the response (a continuation action).  A filesystem call   *)
(* is one step together with the code that follows it.                     *)
(***************************************************************************)
EXTENDS Integers, Sequences, FiniteSets, TLC

\* ------------------------------------------------------------------ bounds

\* Page size of the asset listing.  The code asks for per_page=100; the
\* model keeps the rule (a full page means "ask for the next one") with a
\* small page.
PER_PAGE == 2
\* Most assets the release holds in an initial state.
MaxAssets == 3
\* Largest retentionDays a pruning run is started with.
MaxRetentionDays == 1
\* Operations started in one behaviour of the sequential specification.
MaxOps == 2
\* Milliseconds the clock advances in one behaviour.
MaxTicks == 1
\* Longest references sequence of a narinfo record.
MaxRefs == 2
\* Calls of fingerprint on one record in one behaviour.
MaxCalls == 2
\* Requests the router answers in one behaviour.
MaxRequests == 2
\* Lines an uploaded narinfo has after its four fields.
MaxLines == 2
\* Requests the S3 backend sends in one behaviour.
MaxSends == 2

\* ------------------------------------------------------- program constants

MS_PER_DAY == 86400000

\* ------------------------------------------------------------------- data

Jobs == {1, 2}
Tasks == {1, 2}

Null == "null"

\* A filename is its stem and its extension: `name.endsWith('.narinfo')`
\* reads the extension.  The empty filename is the empty string.
File(stem, ext) == [stem |-> stem, ext |-> ext]
NoFile == File("", "")
NarA == File("a", ".nar.xz")
NarB == File("b", ".nar.xz")
NarC == File("c", ".nar.xz")
Hashes == {"h1", "h2"}
\* `${hash}.narinfo`
NarinfoName(hash) == File(hash, ".narinfo")
NarNames == {NarA, NarB, NarC}

EndsWithNarinfo(name) == name.ext = ".narinfo"

\* A path is a filename behind `nar` leading `nar/` prefixes; the empty
\* string is Path(0, NoFile).
Path(nar, file) == [nar |-> nar, file |-> file]
EmptyPath == Path(0, NoFile)

\* A narinfo text is a sequence of lines `<key>: <value>`.  The value of a
\* URL line is a path; the other lines carry none.
Line(key, val) == [key |-> key, val |-> val]
StorePathLine == Line("StorePath", EmptyPath)
UrlLine(nar, file) == Line("URL", Path(nar, file))

\* `URL: nar/a.nar.xz`, `URL: b.nar.xz`, `URL: nar/` (no filename).
TextRefA == <<StorePathLine, UrlLine(1, NarA)>>
TextRefB == <<UrlLine(0, NarB), StorePathLine>>
TextNoRef == <<StorePathLine, UrlLine(1, NoFile)>>
Texts == {TextRefA, TextRefB, TextNoRef}

\* What an asset holds: a narinfo text or the bytes of a NAR.
TextBody(text) == [text |-> text, bytes |-> <<>>]
NarBody(bytes) == [text |-> <<>>, bytes |-> bytes]
\* The contents of a NAR (a sequence of bytes), and the streams
\* putNarStream is handed: the bytes, and the chunks they arrive in.
NarBytes == {<<1, 2>>, <<3>>}
Stream(bytes, chunks) == [bytes |-> bytes, chunks |-> chunks]
NarStreams ==
  {Stream(<<1, 2>>, << <<1, 2>> >>), Stream(<<1, 2>>, << <<1>>, <<2>> >>),
   Stream(<<3>>, << <<3>> >>)}
\* A buffer that keeps the first chunk only.
ConcatFirst(chunks) ==
  IF chunks = <<>> THEN <<>> ELSE Head(chunks)

\* Buffer.concat(chunks)
RECURSIVE Concat(_)
Concat(chunks) ==
  IF chunks = <<>> THEN <<>> ELSE Head(chunks) \o Concat(Tail(chunks))

\* The clock, in milliseconds.
Now0 == (MaxRetentionDays + 1) * MS_PER_DAY
CreatedTimes == {Now0 - MS_PER_DAY - 1, Now0 - MS_PER_DAY, Now0 - 1}

NoAsset == [id |-> 0, name |-> NoFile, created |-> 0, body |-> NarBody(<<>>)]
Asset(id, name, created, body) ==
  [id |-> id, name |-> name, created |-> created, body |-> body]

\* The assets of a set in listing order (by id).
RECURSIVE SortById(_)
SortById(S) ==
  IF S = {} THEN <<>>
  ELSE LET a == CHOOSE x \in S : \A y \in S : x.id <= y.id
       IN <<a>> \o SortById(S \ {a})

Min(a, b) == IF a <= b THEN a ELSE b

\* Page `page` of the listing: entries (page-1)*PER_PAGE+1 .. page*PER_PAGE.
PageOf(S, page) ==
  LET all == SortById(S)
      lo == (page - 1) * PER_PAGE + 1
      hi == Min(page * PER_PAGE, Len(all))
  IN IF lo > Len(all) THEN <<>> ELSE SubSeq(all, lo, hi)

Range(s) == {s[i] : i \in 1..Len(s)}

\* github-releases.js 345: `url.startsWith('nar/') ? url.slice(4) : url`.
StripNar(url) == IF url.nar > 0 THEN Path(url.nar - 1, url.file) ELSE url

\* github-releases.js 341-348: the filenames the URL lines of a narinfo
\* text name (`if (filename) referenced.add(filename)`).
UrlFilenames(text) ==
  {StripNar(text[i].val) : i \in {k \in 1..Len(text) :
      text[k].key = "URL" /\ StripNar(text[k].val) # EmptyPath}}

\* The string an asset name is.
AsPath(name) == Path(0, name)

\* ------------------------------------------------------------------ state

VARIABLES
  release,     \* id of the release that carries the tag on GitHub, or Null
  assets,      \* the assets of that release
  nextId,      \* the id the next uploaded asset gets
  now,         \* the clock (Date.now(), and created_at of an upload)
  releaseId,   \* this._releaseId of each job's storage object
  narinfoDir,  \* <localPath>/narinfo of each job: hash -> text
  task,        \* the operations in flight: one record per task
  jobOf,       \* the job (process) each task runs in
  env,         \* which faults the environment may inject
  started,     \* operations started so far
  lookups,     \* lookup-by-tag requests issued, per job
  creates,     \* create-release requests issued, per job
  idWrites,    \* assignments to this._releaseId, per job
  putDone,     \* hashes whose putNarinfo completed successfully, per job
  liveDeleted, \* assets pruning deleted while a narinfo referenced them
  narDir,      \* <root>/nar of the local backend: filename -> bytes
  lastPut,     \* what the put that completed last stored, per key
  sgn,         \* one use of the signing module: inputs and results
  store,       \* the storage behind the router: narinfo texts, NAR contents
  conf,        \* the configuration of the server, and what clients send
  http,        \* the last request the router answered
  s3           \* the backend createStorage made, the bucket, the last call

\* The state of the storage backends.
storage == <<release, assets, nextId, now, releaseId, narinfoDir, task, jobOf,
             env, started, lookups, creates, idWrites, putDone, liveDeleted,
             narDir, lastPut>>
\* The state above the backends.
web == <<sgn, store, conf, http, s3>>

vars == <<storage, web>>

RELEASE == "release-42"

NoResp == [status |-> 0, rid |-> Null, page |-> <<>>, body |-> NarBody(<<>>)]
Resp(status) == [NoResp EXCEPT !.status = status]
\* fetch's `resp.ok`: a status in 200..299.
Ok(resp) == resp.status >= 200 /\ resp.status <= 299

NoCutoff == [set |-> FALSE, at |-> 0]

IdleTask ==
  [op |-> "idle", pc |-> "idle", stack |-> <<>>,
   hash |-> "", text |-> <<>>, name |-> NoFile, chunks |-> <<>>, bytes |-> <<>>,
   retentionDays |-> 0,
   resp |-> NoResp, page |-> 0, acc |-> <<>>, found |-> NoAsset,
   idx |-> 0, fetched |-> 0,
   scanPc |-> "none", entries |-> <<>>, scanIdx |-> 0, referenced |-> {},
   cutoff |-> NoCutoff, deleted |-> <<>>, kept |-> <<>>, refNames |-> <<>>,
   resKind |-> "none", resBool |-> FALSE, resBody |-> NarBody(<<>>),
   resNum |-> 0, err |-> Null,
   \* history of the operation, read by the properties only
   listFailed |-> FALSE, checkFailed |-> FALSE, lookupStatus |-> 0,
   createFailed |-> FALSE, assetReqs |-> 0, cutoffNow |-> 0,
   delReq |-> {}, delFail |-> {}, delSent |-> <<>>, wrote |-> FALSE,
   content |-> <<>>, before |-> {}]

Push(tk, label) == [tk EXCEPT !.stack = <<label>> \o @]
Goto(tk, label) == [tk EXCEPT !.pc = label]
\* A call: run `callee`, then go on at `ret`.
Call(tk, callee, ret) == Goto(Push(tk, ret), callee)
\* The callee returns to the label on top of the stack.
Return(tk) == [tk EXCEPT !.pc = Head(tk.stack), !.stack = Tail(tk.stack)]
\* An HTTP request goes out: the task waits for its response at `label`.
Send(tk, label) == [tk EXCEPT !.pc = label, !.resp = NoResp]
\* An asset request (list, upload, delete, download) goes out.
SendAsset(tk, label) ==
  [tk EXCEPT !.pc = label, !.resp = NoResp, !.assetReqs = @ + 1]
\* The operation rejects with an error.
Throw(tk, e) ==
  [tk EXCEPT !.pc = "done", !.stack = <<>>, !.err = e, !.resKind = "error"]
FinishBool(tk, b) ==
  [tk EXCEPT !.pc = "done", !.stack = <<>>, !.resKind = "bool", !.resBool = b]
FinishNull(tk) ==
  [tk EXCEPT !.pc = "done", !.stack = <<>>, !.resKind = "null"]
FinishBody(tk, kind, body) ==
  [tk EXCEPT !.pc = "done", !.stack = <<>>, !.resKind = kind, !.resBody = body]
FinishNum(tk, n) ==
  [tk EXCEPT !.pc = "done", !.stack = <<>>, !.resKind = "count", !.resNum = n]
FinishVoid(tk) ==
  [tk EXCEPT !.pc = "done", !.stack = <<>>, !.resKind = "void"]
FinishPrune(tk) ==
  [tk EXCEPT !.pc = "done", !.stack = <<>>, !.resKind = "prune"]

\* A resolution that never reads the cache.
CachedNever(rid) == rid # rid
\* github-releases.js 39: `if (this._releaseId) return this._releaseId`.
Cached(rid) == rid # Null

\* github-releases.js 380-382.
Cutoff(retentionDays, clock) ==
  IF retentionDays > 0
  THEN [set |-> TRUE, at |-> clock - retentionDays * MS_PER_DAY]
  ELSE NoCutoff

\* A pruning run that takes every asset for a candidate.
IsMetadataNever(asset) == asset.name # asset.name
\* github-releases.js 390: narinfo assets are no orphan candidates.
IsMetadata(asset) == EndsWithNarinfo(asset.name)
\* github-releases.js 392: `referenced.has(asset.name)`.
IsReferenced(referenced, asset) == AsPath(asset.name) \in referenced
\* A strict comparison at the cutoff.
WithinRetentionStrict(cutoff, asset) ==
  cutoff.set /\ asset.created > cutoff.at
\* github-releases.js 398-400: `cutoff && createdAt >= cutoff`.
WithinRetention(cutoff, asset) == cutoff.set /\ asset.created >= cutoff.at

\* github-releases.js 169: `assets.filter(a => a.name.endsWith('.narinfo'))`.
RECURSIVE NarinfoAssets(_)
NarinfoAssets(seq) ==
  IF seq = <<>> THEN <<>>
  ELSE (IF EndsWithNarinfo(Head(seq).name) THEN <<Head(seq)>> ELSE <<>>)
       \o NarinfoAssets(Tail(seq))

\* The code a task runs without suspending: from the label it stands at to
\* the next await.  `rid` is this._releaseId and `clock` Date.now() of the
\* moment it runs.
RECURSIVE Enter(_, _, _)
Enter(tk, rid, clock) ==
  CASE tk.pc = "getReleaseId" ->                     \* 38-46
         IF Cached(rid) THEN Enter(Return(tk), rid, clock)
         ELSE Send(tk, "lookup")
    [] tk.pc = "findAsset" ->                        \* 274-275
         Enter(Call(tk, "getReleaseId", "find_first"), rid, clock)
    [] tk.pc = "find_first" ->                       \* 276-280
         SendAsset([tk EXCEPT !.page = 1], "find_page")
    [] tk.pc = "listAll" ->                          \* 299-300
         Enter(Call(tk, "getReleaseId", "list_first"), rid, clock)
    [] tk.pc = "list_first" ->                       \* 301-306
         SendAsset([tk EXCEPT !.page = 1, !.acc = <<>>], "list_page")
    [] tk.pc = "pni_mirror" ->                       \* 127-128
         Enter(Call(tk, "getReleaseId", "pni_after_rid"), rid, clock)
    [] tk.pc = "pni_after_rid" ->                    \* 129-132
         Enter(Call([tk EXCEPT !.name = NarinfoName(tk.hash)],
                    "findAsset", "pni_after_find"), rid, clock)
    [] tk.pc = "pni_after_find" ->                   \* 133-141
         IF tk.found # NoAsset THEN SendAsset(tk, "pni_delete")
         ELSE SendAsset(tk, "pni_upload")
    [] tk.pc = "pns_start" ->                        \* 226
         Enter(Call(tk, "getReleaseId", "pns_after_rid"), rid, clock)
    [] tk.pc = "pns_after_rid" ->                    \* 231-232
         Goto(tk, "pns_buffer")
    [] tk.pc = "pns_find" ->                         \* 240
         Enter(Call(tk, "findAsset", "pns_after_find"), rid, clock)
    [] tk.pc = "pns_after_find" ->                   \* 241-250
         IF tk.found # NoAsset THEN SendAsset(tk, "pns_delete")
         ELSE SendAsset(tk, "pns_upload")
    [] tk.pc = "hasNar_start" ->                     \* 203
         Enter(Call(tk, "findAsset", "hasNar_after_find"), rid, clock)
    [] tk.pc = "hasNar_after_find" ->                \* 204
         FinishBool(tk, tk.found # NoAsset)
    [] tk.pc = "gns_start" ->                        \* 208
         Enter(Call(tk, "findAsset", "gns_after_find"), rid, clock)
    [] tk.pc = "gns_after_find" ->                   \* 209-211
         IF tk.found = NoAsset THEN FinishNull(tk)
         ELSE SendAsset(tk, "gns_download")
    [] tk.pc = "fan_start" ->                        \* 168
         Enter(Call(tk, "listAll", "fan_after_list"), rid, clock)
    [] tk.pc = "fan_after_list" ->                   \* 169-171
         Enter([tk EXCEPT !.acc = NarinfoAssets(@), !.idx = 1, !.fetched = 0,
                          !.pc = "fan_loop"], rid, clock)
    [] tk.pc = "fan_loop" ->                         \* 173-176, 196-197
         IF tk.idx > Len(tk.acc) THEN FinishNum(tk, tk.fetched)
         ELSE Goto(tk, "fan_exists")
    [] tk.pc = "prune_list" ->                       \* 373-374
         Enter(Call(tk, "listAll", "prune_join"), rid, clock)
    [] tk.pc = "prune_join" ->                       \* 373-386: Promise.all
         IF tk.scanPc = "done"
         THEN Enter([tk EXCEPT !.cutoff = Cutoff(tk.retentionDays, clock),
                               !.cutoffNow = clock,
                               !.idx = 1, !.pc = "prune_loop"], rid, clock)
         ELSE tk
    [] tk.pc = "prune_loop" ->                       \* 388-408, 421-423
         IF tk.idx > Len(tk.acc) THEN FinishPrune(tk)
         ELSE LET asset == tk.acc[tk.idx]
                  next == [tk EXCEPT !.idx = @ + 1]
              IN IF IsMetadata(asset) THEN Enter(next, rid, clock)
                 ELSE IF IsReferenced(tk.referenced, asset)
                 THEN Enter([next EXCEPT !.refNames = Append(@, asset.name)],
                            rid, clock)
                 ELSE IF WithinRetention(tk.cutoff, asset)
                 THEN Enter([next EXCEPT !.kept = Append(@, asset.name)],
                            rid, clock)
                 ELSE SendAsset([tk EXCEPT !.delReq = @ \cup {asset},
                                           !.delSent = Append(@, asset.id)],
                                "prune_delete")
    [] OTHER -> tk

\* ------------------------------------------------- the GitHub REST service
\* Every request gets a response; a request that fails is answered with a
\* status outside 200..299.

Pending(t, labels) == task[t].pc \in labels /\ task[t].resp = NoResp
Answer(t, resp) == task' = [task EXCEPT ![t].resp = resp]

\* A narinfo record that names the file exists: a local file of some job,
\* or a narinfo asset of the release.
LiveReference(name) ==
  \/ \E j \in Jobs : \E h \in DOMAIN narinfoDir[j] :
       AsPath(name) \in UrlFilenames(narinfoDir[j][h])
  \/ \E a \in assets :
       EndsWithNarinfo(a.name) /\ AsPath(name) \in UrlFilenames(a.body.text)

\* A DELETE of a pruning run that addresses whatever asset has the name now.
TargetByName(tk) ==
  IF tk.pc = "prune_delete"
  THEN IF \E a \in assets : a.name = tk.acc[tk.idx].name
       THEN CHOOSE a \in assets : a.name = tk.acc[tk.idx].name
       ELSE tk.acc[tk.idx]
  ELSE IF tk.pc = "fan_download" THEN tk.acc[tk.idx]
  ELSE tk.found

\* The asset a pending DELETE or download addresses (by id).
Target(tk) ==
  IF tk.pc \in {"prune_delete", "fan_download"} THEN tk.acc[tk.idx]
  ELSE tk.found

\* GET /repos/:owner/:repo/releases/tags/:tag
ServeLookup(t) ==
  /\ Pending(t, {"lookup"})
  /\ \E status \in (IF release # Null THEN {200} ELSE {404})
                   \cup (IF env.net THEN {500} ELSE {}) :
       Answer(t, [Resp(status) EXCEPT
                    !.rid = IF status = 200 THEN release ELSE Null])
  /\ UNCHANGED <<narDir, lastPut>>
  /\ UNCHANGED <<release, assets, nextId, now, releaseId, narinfoDir, jobOf,
                 env, started, lookups, creates, idWrites, putDone,
                 liveDeleted, web>>

\* POST /repos/:owner/:repo/releases: a tag that already has a release is
\* rejected (422).
ServeCreate(t) ==
  /\ Pending(t, {"create"})
  /\ \E status \in (IF release = Null THEN {201} ELSE {422})
                   \cup (IF env.net THEN {500} ELSE {}) :
       /\ Answer(t, [Resp(status) EXCEPT
                       !.rid = IF status = 201 THEN RELEASE ELSE Null])
       /\ release' = IF status = 201 THEN RELEASE ELSE release
  /\ UNCHANGED <<narDir, lastPut>>
  /\ UNCHANGED <<assets, nextId, now, releaseId, narinfoDir, jobOf, env,
                 started, lookups, creates, idWrites, putDone, liveDeleted,
                 web>>

\* GET /repos/:owner/:repo/releases/:id/assets?per_page=..&page=..
ServeList(t) ==
  /\ Pending(t, {"find_page", "list_page"})
  /\ \E status \in {200} \cup (IF env.net THEN {500} ELSE {}) :
       Answer(t, [Resp(status) EXCEPT
                    !.page = IF status = 200
                             THEN PageOf(assets, task[t].page) ELSE <<>>])
  /\ UNCHANGED <<narDir, lastPut>>
  /\ UNCHANGED <<release, assets, nextId, now, releaseId, narinfoDir, jobOf,
                 env, started, lookups, creates, idWrites, putDone,
                 liveDeleted, web>>

\* DELETE /repos/:owner/:repo/releases/assets/:id
ServeDelete(t) ==
  /\ Pending(t, {"pni_delete", "pns_delete", "prune_delete"})
  /\ LET asset == Target(task[t])
         there == \E a \in assets : a.id = asset.id
     IN \E status \in (IF there THEN {204} ELSE {404})
                      \cup (IF env.net THEN {500} ELSE {}) :
          /\ Answer(t, Resp(status))
          /\ assets' = IF status = 204
                       THEN {a \in assets : a.id # asset.id} ELSE assets
          /\ liveDeleted' =
               IF status = 204 /\ task[t].pc = "prune_delete"
                  /\ LiveReference(asset.name)
               THEN liveDeleted \cup {asset} ELSE liveDeleted
  /\ UNCHANGED <<narDir, lastPut>>
  /\ UNCHANGED <<release, nextId, now, releaseId, narinfoDir, jobOf, env,
                 started, lookups, creates, idWrites, putDone, web>>

\* POST uploads.github.com/.../releases/:id/assets?name=..: a name the
\* release already holds is rejected (422).
ServeUpload(t) ==
  /\ Pending(t, {"pni_upload", "pns_upload"})
  /\ LET tk == task[t]
         taken == \E a \in assets : a.name = tk.name
         body == IF tk.pc = "pni_upload" THEN TextBody(tk.text)
                 ELSE NarBody(tk.bytes)
     IN \E status \in (IF taken THEN {422} ELSE {201})
                      \cup (IF env.net THEN {500} ELSE {}) :
          /\ Answer(t, Resp(status))
          /\ assets' = IF status = 201
                       THEN assets \cup {Asset(nextId, tk.name, now, body)}
                       ELSE assets
          /\ nextId' = IF status = 201 THEN nextId + 1 ELSE nextId
  /\ UNCHANGED <<narDir, lastPut>>
  /\ UNCHANGED <<release, now, releaseId, narinfoDir, jobOf, env, started,
                 lookups, creates, idWrites, putDone, liveDeleted, web>>

\* GET asset.url with Accept: application/octet-stream
ServeDownload(t) ==
  /\ Pending(t, {"gns_download", "fan_download"})
  /\ LET asset == Target(task[t])
         there == \E a \in assets : a.id = asset.id
     IN \E status \in (IF there THEN {200} ELSE {404})
                      \cup (IF env.net THEN {500} ELSE {}) :
          Answer(t, [Resp(status) EXCEPT
                       !.body = IF status = 200 THEN asset.body
                                ELSE NarBody(<<>>)])
  /\ UNCHANGED <<narDir, lastPut>>
  /\ UNCHANGED <<release, assets, nextId, now, releaseId, narinfoDir, jobOf,
                 env, started, lookups, creates, idWrites, putDone,
                 liveDeleted, web>>

\* ------------------------------------------------------------ the client

Answered(t, label) == task[t].pc = label /\ task[t].resp # NoResp
Rid(t) == releaseId[jobOf[t]]

\* The task goes on as `tk`; a lookup or create request it issues on the
\* way is counted.
Resume(t, tk) ==
  /\ task' = [task EXCEPT ![t] = tk]
  /\ lookups' = [lookups EXCEPT ![jobOf[t]] =
                   @ + (IF tk.pc = "lookup" /\ task[t].pc # "lookup"
                        THEN 1 ELSE 0)]
  /\ creates' = [creates EXCEPT ![jobOf[t]] =
                   @ + (IF tk.pc = "create" /\ task[t].pc # "create"
                        THEN 1 ELSE 0)]

\* `this._releaseId = release.id`
SetReleaseId(t, rid) ==
  /\ releaseId' = [releaseId EXCEPT ![jobOf[t]] = rid]
  /\ idWrites' = [idWrites EXCEPT ![jobOf[t]] = @ + 1]

\* _getReleaseId, 44-55: the lookup answered.
LookupResp(t) ==
  /\ Answered(t, "lookup")
  /\ LET tk == [task[t] EXCEPT !.lookupStatus = task[t].resp.status]
     IN IF Ok(tk.resp)
        THEN /\ SetReleaseId(t, tk.resp.rid)
             /\ Resume(t, Enter(Return(tk), tk.resp.rid, now))
        ELSE /\ Resume(t, Send(tk, "create"))
             /\ UNCHANGED <<releaseId, idWrites>>
  /\ UNCHANGED <<narDir, lastPut>>
  /\ UNCHANGED <<release, assets, nextId, now, narinfoDir, jobOf, env, started,
                 putDone, liveDeleted, web>>

\* _getReleaseId, 59-80: the creation answered.
CreateResp(t) ==
  /\ Answered(t, "create")
  /\ LET tk == task[t]
     IN IF ~Ok(tk.resp)
        THEN /\ Resume(t, Throw([tk EXCEPT !.createFailed = TRUE],
                                "Failed to create GitHub release"))
             /\ UNCHANGED <<releaseId, idWrites>>
        ELSE /\ SetReleaseId(t, tk.resp.rid)
             /\ Resume(t, Enter(Return(tk), tk.resp.rid, now))
  /\ UNCHANGED <<narDir, lastPut>>
  /\ UNCHANGED <<release, assets, nextId, now, narinfoDir, jobOf, env, started,
                 putDone, liveDeleted, web>>

\* A search that takes the first asset of the page, whatever its name.
MatchAny(page, name) ==
  IF Len(page) > 0 THEN page[1] ELSE NoAsset

\* github-releases.js 287: `assets.find(a => a.name === filename)`.
Match(page, name) ==
  IF \E i \in 1..Len(page) : page[i].name = name
  THEN page[CHOOSE i \in 1..Len(page) :
              /\ page[i].name = name
              /\ \A k \in 1..(i - 1) : page[k].name # name]
  ELSE NoAsset

\* _findAsset, 280-291: a page of the listing answered.
FindPageStep(tk) ==
  IF ~Ok(tk.resp)
  THEN Return([tk EXCEPT !.found = NoAsset, !.checkFailed = TRUE])
  ELSE IF Len(tk.resp.page) = 0 THEN Return([tk EXCEPT !.found = NoAsset])
  ELSE IF Match(tk.resp.page, tk.name) # NoAsset
  THEN Return([tk EXCEPT !.found = Match(tk.resp.page, tk.name)])
  ELSE IF Len(tk.resp.page) < PER_PAGE
  THEN Return([tk EXCEPT !.found = NoAsset])
  ELSE SendAsset([tk EXCEPT !.page = @ + 1], "find_page")

FindPageResp(t) ==
  /\ Answered(t, "find_page")
  /\ Resume(t, Enter(FindPageStep(task[t]), Rid(t), now))
  /\ UNCHANGED <<narDir, lastPut>>
  /\ UNCHANGED <<release, assets, nextId, now, releaseId, narinfoDir, jobOf,
                 env, started, idWrites, putDone, liveDeleted, web>>

\* A listing that reads the first page only.
ListPageStepOnce(tk) ==
  IF ~Ok(tk.resp) THEN Return([tk EXCEPT !.listFailed = TRUE])
  ELSE Return([tk EXCEPT !.acc = @ \o tk.resp.page])

\* _listAllAssets, 306-318: a page of the listing answered.
ListPageStep(tk) ==
  IF ~Ok(tk.resp) THEN Return([tk EXCEPT !.listFailed = TRUE])
  ELSE IF Len(tk.resp.page) = 0 THEN Return(tk)
  ELSE IF Len(tk.resp.page) < PER_PAGE
  THEN Return([tk EXCEPT !.acc = @ \o tk.resp.page])
  ELSE SendAsset([tk EXCEPT !.acc = @ \o tk.resp.page, !.page = @ + 1],
                 "list_page")

ListPageResp(t) ==
  /\ Answered(t, "list_page")
  /\ Resume(t, Enter(ListPageStep(task[t]), Rid(t), now))
  /\ UNCHANGED <<narDir, lastPut>>
  /\ UNCHANGED <<release, assets, nextId, now, releaseId, narinfoDir, jobOf,
                 env, started, idWrites, putDone, liveDeleted, web>>

\* What a filesystem call on `<narinfo dir>/<hash>.narinfo` can end with.
FsOutcomes(j, hash) ==
  (IF hash \in DOMAIN narinfoDir[j] THEN {"ok"} ELSE {"ENOENT"})
  \cup (IF env.fs THEN {"EIO"} ELSE {})

\* _exists, 94-101: any error of fsp.access answers false.
Exists(outcome) == outcome = "ok"

\* The record of the put that completed last for a key.
Latest(puts, key, content) ==
  [k \in DOMAIN puts \cup {key} |-> IF k = key THEN content ELSE puts[k]]

\* A write that leaves an existing file as it is.
WriteFileKeep(dir, hash, text) ==
  [h \in DOMAIN dir \cup {hash} |-> IF h \in DOMAIN dir THEN dir[h] ELSE text]

\* fsp.writeFile(<narinfo dir>/<hash>.narinfo, text)
WriteFile(dir, hash, text) ==
  [h \in DOMAIN dir \cup {hash} |-> IF h = hash THEN text ELSE dir[h]]

\* hasNarinfo, 103-105.
HasNarinfoAccess(t) ==
  /\ task[t].pc = "hni_access"
  /\ \E outcome \in FsOutcomes(jobOf[t], task[t].hash) :
       Resume(t, FinishBool([task[t] EXCEPT !.checkFailed = (outcome = "EIO")],
                            Exists(outcome)))
  /\ UNCHANGED <<narDir, lastPut>>
  /\ UNCHANGED <<release, assets, nextId, now, releaseId, narinfoDir, jobOf,
                 env, started, idWrites, putDone, liveDeleted, web>>

\* getNarinfo, 107-114: any error of fsp.readFile answers null.
GetNarinfoRead(t) ==
  /\ task[t].pc = "gni_read"
  /\ \E outcome \in FsOutcomes(jobOf[t], task[t].hash) :
       Resume(t, IF outcome = "ok"
                 THEN FinishBody(task[t], "text",
                        TextBody(narinfoDir[jobOf[t]][task[t].hash]))
                 ELSE FinishNull([task[t] EXCEPT
                                    !.checkFailed = (outcome = "EIO")]))
  /\ UNCHANGED <<narDir, lastPut>>
  /\ UNCHANGED <<release, assets, nextId, now, releaseId, narinfoDir, jobOf,
                 env, started, idWrites, putDone, liveDeleted, web>>

\* putNarinfo, 116-128: the local write, then the mirror to the release.
PutNarinfoWrite(t) ==
  /\ task[t].pc = "pni_write"
  /\ \E outcome \in {"ok"} \cup (IF env.fs THEN {"EIO"} ELSE {}) :
       IF outcome = "ok"
       THEN /\ narinfoDir' = [narinfoDir EXCEPT ![jobOf[t]] =
                                WriteFile(@, task[t].hash, task[t].text)]
            /\ Resume(t, Enter([task[t] EXCEPT !.wrote = TRUE,
                                               !.pc = "pni_mirror"],
                               Rid(t), now))
       ELSE /\ Resume(t, Throw(task[t], "EIO"))
            /\ UNCHANGED narinfoDir
  /\ UNCHANGED <<narDir, lastPut>>
  /\ UNCHANGED <<release, assets, nextId, now, releaseId, jobOf, env, started,
                 idWrites, putDone, liveDeleted, web>>

\* putNarinfo, 133-141: the DELETE answered; its status is not read.
PutNarinfoDeleteResp(t) ==
  /\ Answered(t, "pni_delete")
  /\ Resume(t, SendAsset(task[t], "pni_upload"))
  /\ UNCHANGED <<narDir, lastPut>>
  /\ UNCHANGED <<release, assets, nextId, now, releaseId, narinfoDir, jobOf,
                 env, started, idWrites, putDone, liveDeleted, web>>

\* putNarinfo, 151-155: a rejected upload is a warning.
PutNarinfoUploadResp(t) ==
  /\ Answered(t, "pni_upload")
  /\ Resume(t, FinishVoid(task[t]))
  /\ putDone' = [putDone EXCEPT ![jobOf[t]] = @ \cup {task[t].hash}]
  /\ lastPut' = [lastPut EXCEPT !.narinfo[jobOf[t]] =
                   Latest(@, task[t].hash, task[t].text)]
  /\ UNCHANGED narDir
  /\ UNCHANGED <<release, assets, nextId, now, releaseId, narinfoDir, jobOf,
                 env, started, idWrites, liveDeleted, web>>

\* putNarStream, 231-240: the input stream is read into one buffer.
PutNarStreamBuffer(t) ==
  /\ task[t].pc = "pns_buffer"
  /\ \E outcome \in {"ok"} \cup (IF env.fs THEN {"EIO"} ELSE {}) :
       Resume(t, IF outcome = "ok"
                 THEN Enter([task[t] EXCEPT !.bytes = Concat(task[t].chunks),
                                            !.pc = "pns_find"],
                            Rid(t), now)
                 ELSE Throw(task[t], "stream error"))
  /\ UNCHANGED <<narDir, lastPut>>
  /\ UNCHANGED <<release, assets, nextId, now, releaseId, narinfoDir, jobOf,
                 env, started, idWrites, putDone, liveDeleted, web>>

\* A putNarStream that gives up when the DELETE is refused.
PutNarStreamDeleteRespAborting(t) ==
  /\ Answered(t, "pns_delete")
  /\ Resume(t, IF Ok(task[t].resp) THEN SendAsset(task[t], "pns_upload")
               ELSE Throw(task[t], "Failed to delete release asset"))
  /\ UNCHANGED <<narDir, lastPut>>
  /\ UNCHANGED <<release, assets, nextId, now, releaseId, narinfoDir, jobOf,
                 env, started, idWrites, putDone, liveDeleted, web>>

\* putNarStream, 241-250: the DELETE answered; its status is not read.
PutNarStreamDeleteResp(t) ==
  /\ Answered(t, "pns_delete")
  /\ Resume(t, SendAsset(task[t], "pns_upload"))
  /\ UNCHANGED <<narDir, lastPut>>
  /\ UNCHANGED <<release, assets, nextId, now, releaseId, narinfoDir, jobOf,
                 env, started, idWrites, putDone, liveDeleted, web>>

\* putNarStream, 260-266.
PutNarStreamUploadResp(t) ==
  /\ Answered(t, "pns_upload")
  /\ Resume(t, IF Ok(task[t].resp) THEN FinishVoid(task[t])
               ELSE Throw(task[t], "Failed to upload release asset"))
  /\ lastPut' = IF Ok(task[t].resp)
                THEN [lastPut EXCEPT !.nar =
                        Latest(@, task[t].name, task[t].content)]
                ELSE lastPut
  /\ UNCHANGED narDir
  /\ UNCHANGED <<release, assets, nextId, now, releaseId, narinfoDir, jobOf,
                 env, started, idWrites, putDone, liveDeleted, web>>

\* getNarStream, 211-222: a failed download answers null.
GetNarStreamDownloadResp(t) ==
  /\ Answered(t, "gns_download")
  /\ Resume(t, IF Ok(task[t].resp)
               THEN FinishBody(task[t], "stream", task[t].resp.body)
               ELSE FinishNull([task[t] EXCEPT
                       !.checkFailed = (task[t].resp.status # 404)]))
  /\ UNCHANGED <<narDir, lastPut>>
  /\ UNCHANGED <<release, assets, nextId, now, releaseId, narinfoDir, jobOf,
                 env, started, idWrites, putDone, liveDeleted, web>>

\* fetchAllNarinfo, 173-189: skip the asset when the local file exists.
FetchExists(t) ==
  /\ task[t].pc = "fan_exists"
  /\ LET tk == task[t]
     IN \E outcome \in FsOutcomes(jobOf[t], tk.acc[tk.idx].name.stem) :
          Resume(t, IF Exists(outcome)
                    THEN Enter([tk EXCEPT !.idx = @ + 1, !.pc = "fan_loop"],
                               Rid(t), now)
                    ELSE SendAsset(tk, "fan_download"))
  /\ UNCHANGED <<narDir, lastPut>>
  /\ UNCHANGED <<release, assets, nextId, now, releaseId, narinfoDir, jobOf,
                 env, started, idWrites, putDone, liveDeleted, web>>

\* fetchAllNarinfo, 186-192: a failed download is skipped with a warning.
FetchDownloadResp(t) ==
  /\ Answered(t, "fan_download")
  /\ LET tk == task[t]
     IN Resume(t, IF Ok(tk.resp)
                  THEN [tk EXCEPT !.text = tk.resp.body.text,
                                  !.pc = "fan_write"]
                  ELSE Enter([tk EXCEPT !.idx = @ + 1, !.pc = "fan_loop"],
                             Rid(t), now))
  /\ UNCHANGED <<narDir, lastPut>>
  /\ UNCHANGED <<release, assets, nextId, now, releaseId, narinfoDir, jobOf,
                 env, started, idWrites, putDone, liveDeleted, web>>

\* fetchAllNarinfo, 192-193.
FetchWrite(t) ==
  /\ task[t].pc = "fan_write"
  /\ LET tk == task[t]
     IN \E outcome \in {"ok"} \cup (IF env.fs THEN {"EIO"} ELSE {}) :
          IF outcome = "ok"
          THEN /\ narinfoDir' = [narinfoDir EXCEPT ![jobOf[t]] =
                      WriteFile(@, tk.acc[tk.idx].name.stem, tk.text)]
               /\ Resume(t, Enter([tk EXCEPT !.fetched = @ + 1,
                                             !.idx = @ + 1,
                                             !.pc = "fan_loop"],
                                  Rid(t), now))
          ELSE /\ Resume(t, Throw(tk, "EIO"))
               /\ UNCHANGED narinfoDir
  /\ UNCHANGED <<narDir, lastPut>>
  /\ UNCHANGED <<release, assets, nextId, now, releaseId, jobOf, env, started,
                 idWrites, putDone, liveDeleted, web>>

\* The names fsp.readdir returns, in some fixed order.
RECURSIVE Listing(_)
Listing(S) ==
  IF S = {} THEN <<>>
  ELSE LET h == CHOOSE x \in S : TRUE IN <<h>> \o Listing(S \ {h})

\* The scan of the local narinfo files goes on while the listing is
\* awaited; when both are there the loop of pruneAssets starts.
ScanResume(t, tk) ==
  Resume(t, Enter([tk EXCEPT !.scanPc =
                     IF tk.scanPc = "readfile" /\ tk.scanIdx > Len(tk.entries)
                     THEN "done" ELSE @],
                  Rid(t), now))

\* _getReferencedNarFilenames, 326-335: a failed readdir answers the
\* empty set.
ScanReaddir(t) ==
  /\ task[t].pc # "done"
  /\ task[t].scanPc = "readdir"
  /\ \E outcome \in {"ok"} \cup (IF env.fs THEN {"EIO"} ELSE {}) :
       ScanResume(t, IF outcome = "ok"
                     THEN [task[t] EXCEPT
                             !.entries = Listing(DOMAIN narinfoDir[jobOf[t]]),
                             !.scanIdx = 1, !.scanPc = "readfile"]
                     ELSE [task[t] EXCEPT !.scanPc = "done"])
  /\ UNCHANGED <<narDir, lastPut>>
  /\ UNCHANGED <<release, assets, nextId, now, releaseId, narinfoDir, jobOf,
                 env, started, idWrites, putDone, liveDeleted, web>>

\* _getReferencedNarFilenames, 337-352: an unreadable file is skipped.
ScanReadFile(t) ==
  /\ task[t].pc # "done"
  /\ task[t].scanPc = "readfile"
  /\ LET tk == task[t]
         hash == tk.entries[tk.scanIdx]
     IN \E outcome \in FsOutcomes(jobOf[t], hash) :
          ScanResume(t, [tk EXCEPT
            !.referenced = IF outcome = "ok"
                           THEN @ \cup UrlFilenames(narinfoDir[jobOf[t]][hash])
                           ELSE @,
            !.scanIdx = @ + 1])
  /\ UNCHANGED <<narDir, lastPut>>
  /\ UNCHANGED <<release, assets, nextId, now, releaseId, narinfoDir, jobOf,
                 env, started, idWrites, putDone, liveDeleted, web>>

\* A failed DELETE that aborts the run.
PruneDeleteStepAborting(tk) ==
  LET asset == tk.acc[tk.idx]
  IN IF Ok(tk.resp)
     THEN [tk EXCEPT !.deleted = Append(@, asset.name),
                     !.idx = @ + 1, !.pc = "prune_loop"]
     ELSE Throw([tk EXCEPT !.delFail = @ \cup {asset}],
                "Failed to delete asset")

\* A run that takes every answer to a DELETE for a success.
PruneDeleteStepTrusting(tk) ==
  LET asset == tk.acc[tk.idx]
  IN [tk EXCEPT !.deleted = Append(@, asset.name),
                !.delFail = IF Ok(tk.resp) THEN @ ELSE @ \cup {asset},
                !.idx = @ + 1, !.pc = "prune_loop"]

\* pruneAssets, 413-419: the DELETE answered.
PruneDeleteStep(tk) ==
  LET asset == tk.acc[tk.idx]
  IN IF Ok(tk.resp)
     THEN [tk EXCEPT !.deleted = Append(@, asset.name),
                     !.idx = @ + 1, !.pc = "prune_loop"]
     ELSE [tk EXCEPT !.kept = Append(@, asset.name),
                     !.delFail = @ \cup {asset},
                     !.idx = @ + 1, !.pc = "prune_loop"]

PruneDeleteResp(t) ==
  /\ Answered(t, "prune_delete")
  /\ Resume(t, Enter(PruneDeleteStep(task[t]), Rid(t), now))
  /\ UNCHANGED <<narDir, lastPut>>
  /\ UNCHANGED <<release, assets, nextId, now, releaseId, narinfoDir, jobOf,
                 env, started, idWrites, putDone, liveDeleted, web>>

\* ----------------------------------------------------- starting operations

\* A task may start an operation; in a sequential run only while no other
\* operation is in flight.
CanStart(t) ==
  /\ task[t].pc = "idle"
  /\ t \in env.tasks
  /\ started < env.maxOps
  /\ env.concurrent \/ \A u \in Tasks : task[u].pc = "idle"

Begin(t, tk) ==
  /\ CanStart(t)
  /\ Resume(t, Enter(tk, Rid(t), now))
  /\ started' = started + 1
  /\ UNCHANGED <<narDir, lastPut>>
  /\ UNCHANGED <<release, assets, nextId, now, releaseId, narinfoDir, jobOf,
                 env, idWrites, putDone, liveDeleted, web>>

StartHasNarinfo(t) ==
  \E h \in Hashes :
    Begin(t, [IdleTask EXCEPT !.op = "hasNarinfo", !.hash = h,
                              !.pc = "hni_access"])

StartGetNarinfo(t) ==
  \E h \in Hashes :
    Begin(t, [IdleTask EXCEPT !.op = "getNarinfo", !.hash = h,
                              !.pc = "gni_read"])

StartPutNarinfo(t) ==
  \E h \in Hashes, text \in Texts :
    Begin(t, [IdleTask EXCEPT !.op = "putNarinfo", !.hash = h,
                              !.text = text, !.pc = "pni_write"])

StartHasNar(t) ==
  \E name \in env.names :
    Begin(t, [IdleTask EXCEPT !.op = "hasNar", !.name = name,
                              !.pc = "hasNar_start"])

StartGetNarStream(t) ==
  \E name \in env.names :
    Begin(t, [IdleTask EXCEPT !.op = "getNarStream", !.name = name,
                              !.pc = "gns_start"])

StartPutNarStream(t) ==
  \E name \in env.names, stream \in NarStreams :
    Begin(t, [IdleTask EXCEPT !.op = "putNarStream", !.name = name,
                              !.chunks = stream.chunks,
                              !.content = stream.bytes, !.pc = "pns_start"])

StartFetchAllNarinfo(t) ==
  Begin(t, [IdleTask EXCEPT !.op = "fetchAllNarinfo", !.pc = "fan_start",
                            !.before = DOMAIN narinfoDir[jobOf[t]]])

StartPruneAssets(t) ==
  \E days \in 0..MaxRetentionDays :
    Begin(t, [IdleTask EXCEPT !.op = "pruneAssets", !.retentionDays = days,
                              !.scanPc = "readdir", !.pc = "prune_list"])

\* A maintenance script prunes once fetchAllNarinfo has returned its count
\* (generate-static.js 44, README 176-177).
StartPruneAfterFetch(t) ==
  /\ \E u \in Tasks :
       /\ jobOf[u] = jobOf[t]
       /\ task[u].op = "fetchAllNarinfo"
       /\ task[u].pc = "done"
       /\ task[u].resKind = "count"
  /\ StartPruneAssets(t)

\* ------------------------------------------------- the local backend
\* LocalStorage (src/unnamed/part_001): NAR files under <root>/nar.

\* What a filesystem call on <root>/nar/<name> can end with.
NarFsOutcomes(name) ==
  (IF name \in DOMAIN narDir THEN {"ok"} ELSE {"ENOENT"})
  \cup (IF env.fs THEN {"EIO"} ELSE {})

StartLocalHasNar(t) ==
  /\ \E name \in env.names :
       Begin(t, [IdleTask EXCEPT !.op = "local.hasNar", !.name = name,
                                 !.pc = "lhn_access"])

StartLocalGetNarStream(t) ==
  /\ \E name \in env.names :
       Begin(t, [IdleTask EXCEPT !.op = "local.getNarStream", !.name = name,
                                 !.pc = "lgn_access"])

StartLocalPutNarStream(t) ==
  /\ \E name \in env.names, stream \in NarStreams :
       Begin(t, [IdleTask EXCEPT !.op = "local.putNarStream", !.name = name,
                                 !.chunks = stream.chunks,
                                 !.content = stream.bytes, !.idx = 1,
                                 !.pc = "lpn_open"])

\* hasNar, 55-57: any error of fsp.access answers false.
LocalHasNarAccess(t) ==
  /\ task[t].pc = "lhn_access"
  /\ \E outcome \in NarFsOutcomes(task[t].name) :
       Resume(t, FinishBool([task[t] EXCEPT !.checkFailed = (outcome = "EIO")],
                            Exists(outcome)))
  /\ UNCHANGED <<narDir, lastPut>>
  /\ UNCHANGED <<release, assets, nextId, now, releaseId, narinfoDir, jobOf,
                 env, started, idWrites, putDone, liveDeleted, web>>

\* getNarStream, 59-63: a read stream on the file, null when _exists
\* answers false.
LocalGetNarAccess(t) ==
  /\ task[t].pc = "lgn_access"
  /\ \E outcome \in NarFsOutcomes(task[t].name) :
       Resume(t, IF Exists(outcome)
                 THEN FinishBody(task[t], "stream",
                                 NarBody(narDir[task[t].name]))
                 ELSE FinishNull([task[t] EXCEPT
                                    !.checkFailed = (outcome = "EIO")]))
  /\ UNCHANGED <<narDir, lastPut>>
  /\ UNCHANGED <<release, assets, nextId, now, releaseId, narinfoDir, jobOf,
                 env, started, idWrites, putDone, liveDeleted, web>>

\* putNarStream, 66-67: fs.createWriteStream(filePath) opens the file for
\* writing, which creates it or cuts it to length 0.
LocalPutOpen(t) ==
  /\ task[t].pc = "lpn_open"
  /\ \E outcome \in {"ok"} \cup (IF env.fs THEN {"EIO"} ELSE {}) :
       IF outcome = "ok"
       THEN /\ narDir' = WriteFile(narDir, task[t].name, <<>>)
            /\ Resume(t, Goto(task[t], "lpn_pipe"))
       ELSE /\ Resume(t, Throw(task[t], "EIO"))
            /\ UNCHANGED narDir
  /\ UNCHANGED lastPut
  /\ UNCHANGED <<release, assets, nextId, now, releaseId, narinfoDir, jobOf,
                 env, started, idWrites, putDone, liveDeleted, web>>

\* putNarStream, 68: pipeline(readableStream, writeStream) writes the
\* chunks as they arrive; when the source fails the pipeline rejects and
\* what was written stays in the file.
LocalPutPipe(t) ==
  /\ task[t].pc = "lpn_pipe"
  /\ LET tk == task[t]
     IN \E outcome \in {"ok"} \cup (IF env.fs THEN {"error"} ELSE {}) :
          IF outcome = "error"
          THEN /\ Resume(t, Throw(tk, "stream error"))
               /\ UNCHANGED <<narDir, lastPut>>
          ELSE IF tk.idx <= Len(tk.chunks)
          THEN /\ narDir' = WriteFile(narDir, tk.name,
                                      narDir[tk.name] \o tk.chunks[tk.idx])
               /\ Resume(t, [tk EXCEPT !.idx = @ + 1])
               /\ UNCHANGED lastPut
          ELSE /\ Resume(t, FinishVoid(tk))
               /\ lastPut' = [lastPut EXCEPT !.localNar =
                                Latest(@, tk.name, tk.content)]
               /\ UNCHANGED narDir
  /\ UNCHANGED <<release, assets, nextId, now, releaseId, narinfoDir, jobOf,
                 env, started, idWrites, putDone, liveDeleted, web>>

\* The caller has its result; the task is free again.
Complete(t) ==
  /\ task[t].pc = "done"
  /\ task' = [task EXCEPT ![t] = IdleTask]
  /\ UNCHANGED <<narDir, lastPut>>
  /\ UNCHANGED <<release, assets, nextId, now, releaseId, narinfoDir, jobOf,
                 env, started, lookups, creates, idWrites, putDone,
                 liveDeleted, web>>

\* Time passes.
Tick ==
  /\ now < Now0 + MaxTicks
  /\ now' = now + 1
  /\ UNCHANGED <<narDir, lastPut>>
  /\ UNCHANGED <<release, assets, nextId, releaseId, narinfoDir, task, jobOf,
                 env, started, lookups, creates, idWrites, putDone,
                 liveDeleted, web>>

\* ------------------------------------------------------------- signing.js
\* A string is a sequence of one-character strings, a Buffer a sequence of
\* bytes (0..255).

\* A narinfo record as fingerprint reads it.
Narinfo(storePath, narHash, narSize, references) ==
  [storePath |-> storePath, narHash |-> narHash, narSize |-> narSize,
   references |-> references]

DigitChars == <<"0", "1", "2", "3", "4", "5", "6", "7", "8", "9">>

\* `${narinfo.narSize}`: a non-negative integer in decimal.
RECURSIVE Decimal(_)
Decimal(n) ==
  IF n < 10 THEN <<DigitChars[n + 1]>>
  ELSE Decimal(n \div 10) \o <<DigitChars[(n % 10) + 1]>>

\* Array.prototype.join: the parts with the separator between them.
RECURSIVE Join(_, _)
Join(parts, sep) ==
  IF Len(parts) = 0 THEN <<>>
  ELSE IF Len(parts) = 1 THEN parts[1]
  ELSE parts[1] \o sep \o Join(Tail(parts), sep)

\* A fingerprint that puts the hash before the store path.
fingerprintHashFirst(narinfo) ==
  Join(<< <<"1">>, narinfo.narHash, narinfo.storePath,
          Decimal(narinfo.narSize), Join(narinfo.references, <<",">>) >>,
       <<";">>)

\* A fingerprint that leaves the hash out.
fingerprintNoHash(narinfo) ==
  Join(<< <<"1">>, narinfo.storePath, Decimal(narinfo.narSize),
          Join(narinfo.references, <<",">>) >>,
       <<";">>)

\* signing.js 29-32.
fingerprint(narinfo) ==
  Join(<< <<"1">>, narinfo.storePath, narinfo.narHash,
          Decimal(narinfo.narSize), Join(narinfo.references, <<",">>) >>,
       <<";">>)

\* The base64 alphabet.
B64 ==
  <<"A", "B", "C", "D", "E", "F", "G", "H", "I", "J", "K", "L", "M", "N", "O",
    "P", "Q", "R", "S", "T", "U", "V", "W", "X", "Y", "Z", "a", "b", "c", "d",
    "e", "f", "g", "h", "i", "j", "k", "l", "m", "n", "o", "p", "q", "r", "s",
    "t", "u", "v", "w", "x", "y", "z", "0", "1", "2", "3", "4", "5", "6", "7",
    "8", "9", "+", "/">>

Sextet(c) == (CHOOSE i \in 1..Len(B64) : B64[i] = c) - 1

\* buf.toString('base64'): three bytes give four characters, the last
\* group is padded with `=`.
ToBase64(b) ==
  LET byte(k) == IF k <= Len(b) THEN b[k] ELSE 0
      char(j) ==
        LET first == 3 * ((j - 1) \div 4) + 1
            pos == (j - 1) % 4
        IN IF pos = 0 THEN B64[byte(first) \div 4 + 1]
           ELSE IF pos = 1
           THEN B64[(byte(first) % 4) * 16 + byte(first + 1) \div 16 + 1]
           ELSE IF pos = 2
           THEN IF first + 1 > Len(b) THEN "="
                ELSE B64[(byte(first + 1) % 16) * 4
                         + byte(first + 2) \div 64 + 1]
           ELSE IF first + 2 > Len(b) THEN "="
                ELSE B64[(byte(first + 2) % 64) + 1]
  IN [j \in 1..(4 * ((Len(b) + 2) \div 3)) |-> char(j)]

\* The sextets of a base64 text: decoding stops at `=` and skips every
\* character outside the alphabet.
Sextets(s) ==
  LET stops == {i \in 1..Len(s) : s[i] = "="}
      end == IF stops = {} THEN Len(s)
             ELSE (CHOOSE i \in stops : \A k \in stops : i <= k) - 1
      inAlphabet(c) == c \in Range(B64)
      kept == SelectSeq(SubSeq(s, 1, end), inAlphabet)
  IN [i \in 1..Len(kept) |-> Sextet(kept[i])]

\* Four sextets give three bytes; two or three left over give one or two.
Bytes(x) ==
  LET byte(k) ==
        LET i == (8 * (k - 1)) \div 6 + 1
            shift == (8 * (k - 1)) % 6
        IN IF shift = 0 THEN x[i] * 4 + x[i + 1] \div 16
           ELSE IF shift = 2 THEN (x[i] % 16) * 16 + x[i + 1] \div 4
           ELSE (x[i] % 4) * 64 + x[i + 1]
  IN [k \in 1..((6 * Len(x)) \div 8) |-> byte(k)]

\* Buffer.from(text, 'base64').
FromBase64(s) == Bytes(Sextets(s))

\* keyString.indexOf(':'), counted from 1; 0 when there is none.
IndexOfColon(s) ==
  IF \E i \in 1..Len(s) : s[i] = ":"
  THEN CHOOSE i \in 1..Len(s) : s[i] = ":" /\ \A k \in 1..(i - 1) : s[k] # ":"
  ELSE 0

INVALID_KEY_FORMAT == "Invalid Nix key format"
DECODER_ERROR == "crypto: key decoding failed"

\* signing.js 10-18.
parseKey(keyString) ==
  LET colonIdx == IndexOfColon(keyString)
  IN IF colonIdx = 0
     THEN [err |-> INVALID_KEY_FORMAT, name |-> <<>>, key |-> <<>>]
     ELSE [err |-> "", name |-> SubSeq(keyString, 1, colonIdx - 1),
           key |-> FromBase64(SubSeq(keyString, colonIdx + 1,
                                     Len(keyString)))]

\* The sizes of ed25519 keys and signatures, in bytes.
SEED_BYTES == 32
NIX_KEY_BYTES == 64

\* signing.js 53: 302e020100300506032b657004220420.
PKCS8_PREFIX == <<48, 46, 2, 1, 0, 48, 5, 6, 3, 43, 101, 112, 4, 34, 4, 32>>
\* signing.js 74: 302a300506032b6570032100.
SPKI_HEADER == <<48, 42, 48, 5, 6, 3, 43, 101, 112, 3, 33, 0>>

\* The DER decoder of crypto.createPrivateKey and crypto.createPublicKey:
\* the second byte is the length of what follows it.  Fewer bytes than
\* that is an error; what the decoder does with more bytes is left open:
\* it reads the structure and ignores the rest (`lenient`) or fails.
DerDecode(der, header, lenient) ==
  LET total == header[2] + 2
  IN IF Len(der) < total \/ (Len(der) > total /\ ~lenient)
     THEN [err |-> DECODER_ERROR, key |-> <<>>]
     ELSE [err |-> "", key |-> SubSeq(der, Len(header) + 1, total)]

\* ed25519, in the abstract: the public key is a function of the seed, a
\* signature is a function of the seed and the message, verification
\* succeeds exactly for the signature the seed of that public key makes
\* for that message, and different messages have different signatures.
PublicOf(seed) == [i \in 1..Len(seed) |-> (seed[i] + 128) % 256]

CodedChars == DigitChars \o <<"a", ";", ",">>
CharCode(c) ==
  <<48, 49, 50, 51, 52, 53, 54, 55, 56, 57, 97, 59, 44>>
    [CHOOSE i \in 1..Len(CodedChars) : CodedChars[i] = c]

\* Buffer.from(text): the bytes of the text.
Utf8(text) == [i \in 1..Len(text) |-> CharCode(text[i])]

\* The half of a signature that depends on the message.
Digest(msg) ==
  [i \in 1..SEED_BYTES |-> IF i <= Len(msg) THEN msg[i] ELSE 0]

\* crypto.sign(null, msg, privateKey).
Ed25519Sign(seed, msg) == PublicOf(seed) \o Digest(msg)

\* A verification that looks at the key only.
Ed25519VerifyKeyOnly(msg, pub, sig) ==
  Len(sig) = NIX_KEY_BYTES /\ SubSeq(sig, 1, SEED_BYTES) = pub

\* crypto.verify(null, msg, publicKey, sigBytes): false for a signature of
\* any other length or content.
Ed25519Verify(msg, pub, sig) == sig = pub \o Digest(msg)

\* A signer that takes the second half of a 64-byte key for the seed.
SeedOfTail(key) ==
  IF Len(key) = NIX_KEY_BYTES
  THEN SubSeq(key, SEED_BYTES + 1, NIX_KEY_BYTES) ELSE key

\* signing.js 49.
SeedOf(key) ==
  IF Len(key) = NIX_KEY_BYTES THEN SubSeq(key, 1, SEED_BYTES) ELSE key

NoSignature == [err |-> "none", sig |-> <<>>]

\* signing.js 44-60.
signNarinfo(narinfo, privateKeyString, lenient) ==
  LET parsed == parseKey(privateKeyString)
      der == PKCS8_PREFIX \o SeedOf(parsed.key)
      privateKey == DerDecode(der, PKCS8_PREFIX, lenient)
      msg == Utf8(fingerprint(narinfo))
      sig == Ed25519Sign(privateKey.key, msg)
  IN IF parsed.err # "" THEN [err |-> parsed.err, sig |-> <<>>]
     ELSE IF privateKey.err # "" THEN [err |-> privateKey.err, sig |-> <<>>]
     ELSE [err |-> "", sig |-> parsed.name \o <<":">> \o ToBase64(sig)]

NoVerdict == [err |-> "none", ok |-> FALSE]

\* A verifier that raises when the signature does not match.
verifyNarinfoRaising(narinfo, sigString, publicKeyString, lenient) ==
  LET pub == parseKey(publicKeyString)
      publicKey == DerDecode(SPKI_HEADER \o pub.key, SPKI_HEADER, lenient)
      sig == parseKey(sigString)
      msg == Utf8(fingerprint(narinfo))
  IN IF pub.err = "" /\ publicKey.err = "" /\ sig.err = ""
        /\ Ed25519Verify(msg, publicKey.key, sig.key)
     THEN [err |-> "", ok |-> TRUE]
     ELSE [err |-> "bad signature", ok |-> FALSE]

\* signing.js 70-81.
verifyNarinfo(narinfo, sigString, publicKeyString, lenient) ==
  LET pub == parseKey(publicKeyString)
      publicKey == DerDecode(SPKI_HEADER \o pub.key, SPKI_HEADER, lenient)
      sig == parseKey(sigString)
      msg == Utf8(fingerprint(narinfo))
  IN IF pub.err # "" THEN [err |-> pub.err, ok |-> FALSE]
     ELSE IF publicKey.err # "" THEN [err |-> publicKey.err, ok |-> FALSE]
     ELSE IF sig.err # "" THEN [err |-> sig.err, ok |-> FALSE]
     ELSE [err |-> "", ok |-> Ed25519Verify(msg, publicKey.key, sig.key)]

\* The strings a store path or a hash is drawn from: empty, plain, and the
\* two separators of the fingerprint.
Strs == {<<>>, <<"a">>, <<";">>, <<",">>}
Sizes == {1, 12}
RefSeqs == UNION {[1..n -> Strs] : n \in 0..MaxRefs}
Records ==
  {Narinfo(sp, nh, size, refs) :
     sp \in Strs, nh \in Strs, size \in Sizes, refs \in RefSeqs}

\* The records that differ from r in exactly one field.
Changes(r) ==
  {o \in Records :
     Cardinality({f \in DOMAIN r : o[f] # r[f]}) = 1}

\* Two key pairs, as the key generator of the tests writes them
\* (signing.test.js 7-23).
SeedA == [i \in 1..SEED_BYTES |-> i]
SeedB == [i \in 1..SEED_BYTES |-> 2 * i + 50]
NameA == <<"k", "1">>
NameB == <<"k", "2">>
KeyString(name, key) == name \o <<":">> \o ToBase64(key)

PrivateA64 == KeyString(NameA, SeedA \o PublicOf(SeedA))
PrivateA32 == KeyString(NameA, SeedA)
PrivateB64 == KeyString(NameB, SeedB \o PublicOf(SeedB))
PublicA == KeyString(NameA, PublicOf(SeedA))
PublicB == KeyString(NameB, PublicOf(SeedB))

\* Private key strings: the three above, one with no colon, one of 16
\* bytes, one of 48 bytes and one with nothing behind the colon.
PrivateKeyStrings ==
  {PrivateA64, PrivateA32, PrivateB64,
   NameA \o ToBase64(SeedA),
   KeyString(NameA, SubSeq(SeedA, 1, 16)),
   KeyString(NameA, SeedA \o SubSeq(SeedB, 1, 16)),
   KeyString(NameA, <<>>)}

\* Public key strings: the two above, one with no colon, one of 16 bytes
\* and one of 33 bytes.
PublicKeyStrings ==
  {PublicA, PublicB,
   NameA \o ToBase64(PublicOf(SeedA)),
   KeyString(NameA, SubSeq(PublicOf(SeedA), 1, 16)),
   KeyString(NameA, PublicOf(SeedA) \o <<0>>)}

\* Signature strings that no key made: 64 zero bytes behind a name, and
\* a text with no colon.
ZeroSignature == KeyString(NameA, [i \in 1..NIX_KEY_BYTES |-> 0])
GivenSignatures == {ZeroSignature, NameA \o ToBase64(SeedA)}

\* The state of one use of the signing module: its inputs and what the
\* calls made so far returned.
SignState(narinfo, other, priv, pub) ==
  [narinfo |-> narinfo, other |-> other, priv |-> priv, pub |-> pub,
   fps |-> <<>>, signed |-> NoSignature,
   subject |-> "none", sigString |-> <<>>, verified |-> NoVerdict]

NoSign == SignState(Narinfo(<<>>, <<>>, 1, <<>>), Narinfo(<<>>, <<>>, 1, <<>>),
                    <<>>, <<>>)

\* fingerprint(narinfo) is called.
Fingerprint ==
  /\ Len(sgn.fps) < MaxCalls
  /\ sgn' = [sgn EXCEPT !.fps = Append(@, fingerprint(sgn.narinfo))]
  /\ UNCHANGED <<storage, store, conf, http, s3>>

\* signNarinfo(narinfo, priv) is called.
SignNarinfo ==
  /\ sgn.signed = NoSignature
  /\ \E lenient \in BOOLEAN :
       sgn' = [sgn EXCEPT !.signed =
                 signNarinfo(sgn.narinfo, sgn.priv, lenient)]
  /\ UNCHANGED <<storage, store, conf, http, s3>>

\* verifyNarinfo is called on the record or on the changed record, with
\* the signature signNarinfo returned or with a given one.
VerifyNarinfo ==
  /\ sgn.verified = NoVerdict
  /\ \E subject \in {"narinfo", "other"}, lenient \in BOOLEAN,
        sigString \in GivenSignatures
                       \cup (IF sgn.signed.err = "" THEN {sgn.signed.sig}
                             ELSE {}) :
       sgn' = [sgn EXCEPT
                 !.subject = subject, !.sigString = sigString,
                 !.verified =
                   verifyNarinfo(IF subject = "narinfo" THEN sgn.narinfo
                                 ELSE sgn.other,
                                 sigString, sgn.pub, lenient)]
  /\ UNCHANGED <<storage, store, conf, http, s3>>

\* -------------------------------------- middleware/auth.js, routes/cache.js
\* Header values and narinfo texts are strings: sequences of characters.

LF == "\n"
Whitespace == {" ", "\t", LF}

\* text.split(sep): the pieces between the separators.
Split(text, sep) ==
  LET seps == {i \in 1..Len(text) : text[i] = sep}
      pos(k) == IF k = 0 THEN 0
                ELSE IF k > Cardinality(seps) THEN Len(text) + 1
                ELSE CHOOSE i \in seps : Cardinality({j \in seps : j < i}) = k - 1
  IN [k \in 1..(Cardinality(seps) + 1) |->
        SubSeq(text, pos(k - 1) + 1, pos(k) - 1)]

\* text.trimEnd() and text.trim().
TrimEnd(text) ==
  LET solid == {i \in 1..Len(text) : text[i] \notin Whitespace}
  IN IF solid = {} THEN <<>>
     ELSE SubSeq(text, 1, CHOOSE i \in solid : \A j \in solid : j <= i)

Trim(text) ==
  LET solid == {i \in 1..Len(text) : text[i] \notin Whitespace}
  IN IF solid = {} THEN <<>>
     ELSE SubSeq(text, CHOOSE i \in solid : \A j \in solid : i <= j,
                 CHOOSE i \in solid : \A j \in solid : j <= i)

\* line.startsWith(prefix).
StartsWith(line, prefix) ==
  Len(line) >= Len(prefix) /\ SubSeq(line, 1, Len(prefix)) = prefix

\* value.split(/\s+/).filter(Boolean): the words of a value.
Words(value) ==
  LET starts == {i \in 1..Len(value) :
                   /\ value[i] \notin Whitespace
                   /\ i = 1 \/ value[i - 1] \in Whitespace}
      start(k) == CHOOSE i \in starts :
                    Cardinality({j \in starts : j < i}) = k - 1
      stop(i) == IF \E j \in i..Len(value) : value[j] \in Whitespace
                 THEN (CHOOSE j \in i..Len(value) :
                         /\ value[j] \in Whitespace
                         /\ \A l \in i..(j - 1) : value[l] \notin Whitespace)
                      - 1
                 ELSE Len(value)
  IN [k \in 1..Cardinality(starts) |->
        SubSeq(value, start(k), stop(start(k)))]

\* parseInt(value, 10) of a text that starts with a digit: the number its
\* leading digits spell.
RECURSIVE ParseInt(_, _)
ParseInt(value, sofar) ==
  IF Len(value) = 0 \/ value[1] \notin Range(DigitChars) THEN sofar
  ELSE ParseInt(Tail(value),
                10 * sofar
                  + (CHOOSE d \in 0..9 : DigitChars[d + 1] = value[1]))

STORE_PATH == <<"S", "t", "o", "r", "e", "P", "a", "t", "h">>
NAR_HASH == <<"N", "a", "r", "H", "a", "s", "h">>
NAR_SIZE == <<"N", "a", "r", "S", "i", "z", "e">>
REFERENCES == <<"R", "e", "f", "e", "r", "e", "n", "c", "e", "s">>
SIG_PREFIX == <<"S", "i", "g", ":">>

\* cache.js 128-131: the key and the value of a line that has a colon.
KeyOf(line) == Trim(SubSeq(line, 1, IndexOfColon(line) - 1))
ValueOf(line) == Trim(SubSeq(line, IndexOfColon(line) + 1, Len(line)))

\* cache.js 124-141, for a text that has a StorePath, a NarHash and a
\* NarSize line: of several lines with one key the last one counts, the
\* words of all References lines are collected in order.
parseNarinfo(text) ==
  LET lines == Split(text, LF)
      with(key) == {i \in 1..Len(lines) :
                      IndexOfColon(lines[i]) # 0 /\ KeyOf(lines[i]) = key}
      last(key) == ValueOf(lines[CHOOSE i \in with(key) :
                                   \A j \in with(key) : j <= i])
      refLines == SelectSeq(lines,
                            LAMBDA l : IndexOfColon(l) # 0
                                       /\ KeyOf(l) = REFERENCES)
      words == [k \in 1..Len(refLines) |-> Words(ValueOf(refLines[k]))]
  IN Narinfo(last(STORE_PATH), last(NAR_HASH), ParseInt(last(NAR_SIZE), 0),
             Join(words, <<>>))

\* A re-signing that keeps the Sig lines of the upload.
addSignatureKeeping(content, signingKey, lenient) ==
  LET signed == signNarinfo(parseNarinfo(content), signingKey, lenient)
  IN IF signed.err # "" THEN [err |-> signed.err, text |-> <<>>]
     ELSE [err |-> "",
           text |-> TrimEnd(content) \o <<LF>> \o SIG_PREFIX \o <<" ">>
                      \o signed.sig \o <<LF>>]

\* A re-signing that appends its Sig line to the last line of the text.
addSignatureJoined(content, signingKey, lenient) ==
  LET signed == signNarinfo(parseNarinfo(content), signingKey, lenient)
      lines == SelectSeq(Split(content, LF),
                         LAMBDA l : ~StartsWith(l, SIG_PREFIX))
      trimmed == TrimEnd(Join(lines, <<LF>>))
  IN IF signed.err # "" THEN [err |-> signed.err, text |-> <<>>]
     ELSE [err |-> "",
           text |-> trimmed \o SIG_PREFIX \o <<" ">>
                      \o signed.sig \o <<LF>>]

\* cache.js 149-158.
addSignature(content, signingKey, lenient) ==
  LET signed == signNarinfo(parseNarinfo(content), signingKey, lenient)
      lines == SelectSeq(Split(content, LF),
                         LAMBDA l : ~StartsWith(l, SIG_PREFIX))
      trimmed == TrimEnd(Join(lines, <<LF>>))
  IN IF signed.err # "" THEN [err |-> signed.err, text |-> <<>>]
     ELSE [err |-> "",
           text |-> trimmed \o <<LF>> \o SIG_PREFIX \o <<" ">>
                      \o signed.sig \o <<LF>>]

\* The letters of the scheme, in upper and in lower case.
UpperCase == <<"B", "E", "A", "R">>
LowerCase == <<"b", "e", "a", "r">>
Lower(c) ==
  IF c \in Range(UpperCase)
  THEN LowerCase[CHOOSE i \in 1..Len(UpperCase) : UpperCase[i] = c]
  ELSE c

BEARER == <<"b", "e", "a", "r", "e", "r">>

\* auth.js 17: authHeader.match(/^Bearer\s+(.+)$/i): the scheme in any
\* case, whitespace, and the group, which is what follows the whitespace
\* (the last whitespace character when nothing follows).  [matched |->
\* FALSE] when the header does not match.
MatchBearer(authHeader) ==
  LET n == Len(BEARER)
      blanks == {i \in (n + 1)..Len(authHeader) :
                   \A j \in (n + 1)..i : authHeader[j] \in Whitespace}
      from == IF Cardinality(blanks) + n = Len(authHeader)
              THEN Len(authHeader) ELSE n + Cardinality(blanks) + 1
      group == SubSeq(authHeader, from, Len(authHeader))
  IN IF /\ Len(authHeader) > n + 1
        /\ [i \in 1..n |-> Lower(authHeader[i])] = BEARER
        /\ blanks # {}
        /\ LF \notin Range(group)
     THEN [matched |-> TRUE, group |-> group]
     ELSE [matched |-> FALSE, group |-> <<>>]

\* A middleware that admits every header of the Bearer scheme.
requireUploadSecretAnyBearer(secret, authHeader) ==
  secret = <<>> \/ MatchBearer(authHeader).matched

\* auth.js 11-23: TRUE when the request goes on to the handler, FALSE when
\* it is answered 401.  No secret is the empty string; no header reads as
\* the empty string.
requireUploadSecret(secret, authHeader) ==
  \/ secret = <<>>
  \/ /\ MatchBearer(authHeader).matched
     /\ MatchBearer(authHeader).group = secret

\* Map.prototype.set.
MapSet(map, key, value) ==
  [k \in DOMAIN map \cup {key} |-> IF k = key THEN value ELSE map[k]]

\* The storage behind the router, as the tests build it (server.test.js
\* 10-28): a map of narinfo texts and a map of NAR contents.  `uploaded`
\* remembers the body of the PUT each narinfo came from.
EmptyStore == [narinfos |-> <<>>, nars |-> <<>>, uploaded |-> <<>>]

\* The last request the router answered.
Exchange(seq, method, route, auth, status) ==
  [seq |-> seq, method |-> method, route |-> route, auth |-> auth,
   status |-> status]
NoExchange == Exchange(0, "none", "none", <<>>, 0)

\* The configuration of a server that gets no request.
NoConf ==
  [uploadSecret |-> <<>>, signingKey |-> <<>>, headers |-> {}, bodies |-> {}]

\* What storage.putNarinfo and the like end with: they resolve, or reject.
BackendOutcomes == {"ok", "error"}

\* PUT /:hash.narinfo, cache.js 69-85, behind the middleware.
PutNarinfoRoute ==
  /\ http.seq < MaxRequests
  /\ \E body \in conf.bodies, lenient \in BOOLEAN :
       \E content \in {IF conf.signingKey # <<>> /\ Trim(body) # <<>>
                       THEN addSignature(body, conf.signingKey, lenient)
                       ELSE [err |-> "", text |-> body]} :
         \E hash \in Hashes, auth \in conf.headers,
            outcome \in BackendOutcomes :
           LET status == IF ~requireUploadSecret(conf.uploadSecret, auth)
                         THEN 401
                         ELSE IF Trim(body) = <<>> THEN 400
                         ELSE IF content.err # "" \/ outcome = "error"
                         THEN 500
                         ELSE 200
           IN /\ http' = Exchange(http.seq + 1, "PUT", "narinfo", auth,
                                  status)
              /\ store' = IF status = 200
                          THEN [store EXCEPT
                                  !.narinfos = MapSet(@, hash, content.text),
                                  !.uploaded = MapSet(@, hash, body)]
                          ELSE store
  /\ UNCHANGED <<storage, sgn, conf, s3>>

\* PUT /nar/:filename, cache.js 107-114, behind the middleware.
PutNarRoute ==
  /\ http.seq < MaxRequests
  /\ \E name \in {NarA, NarB}, auth \in conf.headers, bytes \in NarBytes,
        outcome \in BackendOutcomes :
       LET status == IF ~requireUploadSecret(conf.uploadSecret, auth)
                     THEN 401
                     ELSE IF outcome = "error" THEN 500 ELSE 200
       IN /\ http' = Exchange(http.seq + 1, "PUT", "nar", auth, status)
          /\ store' = IF status = 200
                      THEN [store EXCEPT !.nars = MapSet(@, name, bytes)]
                      ELSE store
  /\ UNCHANGED <<storage, sgn, conf, s3>>

\* HEAD /:hash.narinfo, cache.js 41-48.
HeadNarinfoRoute ==
  /\ http.seq < MaxRequests
  /\ \E hash \in Hashes, auth \in conf.headers, outcome \in BackendOutcomes :
       http' = Exchange(http.seq + 1, "HEAD", "narinfo", auth,
                        IF outcome = "error" THEN 500
                        ELSE IF hash \in DOMAIN store.narinfos THEN 200
                        ELSE 404)
  /\ UNCHANGED <<storage, sgn, conf, store, s3>>

\* GET /:hash.narinfo, cache.js 53-64.
GetNarinfoRoute ==
  /\ http.seq < MaxRequests
  /\ \E hash \in Hashes, auth \in conf.headers, outcome \in BackendOutcomes :
       http' = Exchange(http.seq + 1, "GET", "narinfo", auth,
                        IF outcome = "error" THEN 500
                        ELSE IF hash \in DOMAIN store.narinfos THEN 200
                        ELSE 404)
  /\ UNCHANGED <<storage, sgn, conf, store, s3>>

\* GET /nar/:filename, cache.js 90-102.
GetNarRoute ==
  /\ http.seq < MaxRequests
  /\ \E name \in {NarA, NarB}, auth \in conf.headers,
        outcome \in BackendOutcomes :
       http' = Exchange(http.seq + 1, "GET", "nar", auth,
                        IF outcome = "error" THEN 500
                        ELSE IF name \in DOMAIN store.nars THEN 200
                        ELSE 404)
  /\ UNCHANGED <<storage, sgn, conf, store, s3>>

\* ---------------------------------------------- storage/index.js, storage/s3.js
\* The classes of the storage backends.
LOCAL_STORAGE == "LocalStorage"
S3_STORAGE == "S3Storage"
GITHUB_RELEASES_STORAGE == "GitHubReleasesStorage"

\* What an object of each class exposes.
BackendMethods ==
  {"hasNarinfo", "getNarinfo", "putNarinfo", "hasNar", "getNarStream",
   "putNarStream"}
MethodsOf(class) ==
  IF class = GITHUB_RELEASES_STORAGE
  THEN BackendMethods \cup {"fetchAllNarinfo", "pruneAssets"}
  ELSE BackendMethods

\* index.js 11-16: the class of the object createStorage returns.
createStorage(storageBackend) ==
  IF storageBackend = "s3" THEN S3_STORAGE ELSE LOCAL_STORAGE

\* s3.js 33, 72: the keys of the bucket.
NarinfoKey(hash) == <<"narinfo", NarinfoName(hash)>>
NarKey(filename) == <<"nar", filename>>

\* What client.send ends with: it resolves (no name, status 200), or it
\* rejects with an error that has a name and, when the service answered,
\* the status of the answer in $metadata (0: no answer).
Reply(name, status) == [name |-> name, status |-> status]
Resolved == Reply("", 200)
NO_STATUS == 0

\* The service answers a HeadObject for a missing key with NotFound, a
\* GetObject with NoSuchKey, both 404; any request may also meet a missing
\* bucket (404), a refusal, a failure of the service, or no answer.
Faults ==
  {Reply("NoSuchBucket", 404), Reply("AccessDenied", 403),
   Reply("InternalError", 500), Reply("TimeoutError", NO_STATUS)}
HeadReplies(objects, key) ==
  (IF key \in DOMAIN objects THEN {Resolved} ELSE {Reply("NotFound", 404)})
    \cup Faults
GetReplies(objects, key) ==
  (IF key \in DOMAIN objects THEN {Resolved} ELSE {Reply("NoSuchKey", 404)})
    \cup Faults
PutReplies == {Resolved} \cup Faults

\* The error raised while the body of a GetObject answer is read.
StreamError == Reply("Error", NO_STATUS)

\* A backend that takes every error for absence.
AbsentOnAny(err, name) == TRUE

\* s3.js 37, 54, 76, 93: the catch clause answers false or null.
Absent(err, name) == err.name = name \/ err.status = 404

\* The outcome of a call: it returns true, false, null, nothing or what an
\* object holds, or it throws the error.
NoBody == [text |-> <<>>, bytes |-> <<>>]
Returned(value) ==
  [threw |-> FALSE, value |-> value, body |-> NoBody, err |-> Resolved]
ReturnedBody(body) ==
  [threw |-> FALSE, value |-> "body", body |-> body, err |-> Resolved]
Thrown(err) ==
  [threw |-> TRUE, value |-> "none", body |-> NoBody, err |-> err]

\* The last call of a backend method: the error client.send or the body
\* gave (Resolved if none), and the outcome.
S3Call(op, key, err, outcome) ==
  [op |-> op, key |-> key, err |-> err, outcome |-> outcome]
NoS3 ==
  [config |-> "", backend |-> "none", objects |-> <<>>, sends |-> 0,
   last |-> S3Call("none", <<>>, Resolved, Returned("undefined"))]

\* createStorage(config), as server.js 16 calls it.
CreateStorage ==
  /\ s3.backend = "none"
  /\ s3' = [s3 EXCEPT !.backend = createStorage(s3.config)]
  /\ UNCHANGED <<storage, sgn, store, conf, http>>

\* A method of the S3 backend may be called.
S3Ready == s3.backend = S3_STORAGE /\ s3.sends < MaxSends

\* s3.js 29-40.
S3HasNarinfo ==
  /\ S3Ready
  /\ \E hash \in Hashes :
       \E err \in HeadReplies(s3.objects, NarinfoKey(hash)) :
         s3' = [s3 EXCEPT
                  !.sends = @ + 1,
                  !.last = S3Call("hasNarinfo", NarinfoKey(hash), err,
                             IF err = Resolved THEN Returned("true")
                             ELSE IF Absent(err, "NotFound")
                             THEN Returned("false")
                             ELSE Thrown(err))]
  /\ UNCHANGED <<storage, sgn, store, conf, http>>

\* s3.js 42-57.
S3GetNarinfo ==
  /\ S3Ready
  /\ \E hash \in Hashes, read \in {Resolved, StreamError} :
       \E reply \in GetReplies(s3.objects, NarinfoKey(hash)) :
         LET err == IF reply = Resolved THEN read ELSE reply
         IN s3' = [s3 EXCEPT
                     !.sends = @ + 1,
                     !.last = S3Call("getNarinfo", NarinfoKey(hash), err,
                                IF err = Resolved
                                THEN ReturnedBody(s3.objects[NarinfoKey(hash)])
                                ELSE IF Absent(err, "NoSuchKey")
                                THEN Returned("null")
                                ELSE Thrown(err))]
  /\ UNCHANGED <<storage, sgn, store, conf, http>>

\* s3.js 59-66.
S3PutNarinfo ==
  /\ S3Ready
  /\ \E hash \in Hashes, content \in Texts, err \in PutReplies :
       s3' = [s3 EXCEPT
                !.sends = @ + 1,
                !.objects = IF err = Resolved
                            THEN MapSet(@, NarinfoKey(hash), TextBody(content))
                            ELSE @,
                !.last = S3Call("putNarinfo", NarinfoKey(hash), err,
                           IF err = Resolved THEN Returned("undefined")
                           ELSE Thrown(err))]
  /\ UNCHANGED <<storage, sgn, store, conf, http>>

\* s3.js 68-79.
S3HasNar ==
  /\ S3Ready
  /\ \E filename \in {NarA, NarB} :
       \E err \in HeadReplies(s3.objects, NarKey(filename)) :
         s3' = [s3 EXCEPT
                  !.sends = @ + 1,
                  !.last = S3Call("hasNar", NarKey(filename), err,
                             IF err = Resolved THEN Returned("true")
                             ELSE IF Absent(err, "NotFound")
                             THEN Returned("false")
                             ELSE Thrown(err))]
  /\ UNCHANGED <<storage, sgn, store, conf, http>>

\* s3.js 81-96: the stream is returned unread.
S3GetNarStream ==
  /\ S3Ready
  /\ \E filename \in {NarA, NarB} :
       \E err \in GetReplies(s3.objects, NarKey(filename)) :
         s3' = [s3 EXCEPT
                  !.sends = @ + 1,
                  !.last = S3Call("getNarStream", NarKey(filename), err,
                             IF err = Resolved
                             THEN ReturnedBody(s3.objects[NarKey(filename)])
                             ELSE IF Absent(err, "NoSuchKey")
                             THEN Returned("null")
                             ELSE Thrown(err))]
  /\ UNCHANGED <<storage, sgn, store, conf, http>>

\* s3.js 98-105.
S3PutNarStream ==
  /\ S3Ready
  /\ \E filename \in {NarA, NarB}, bytes \in NarBytes, err \in PutReplies :
       s3' = [s3 EXCEPT
                !.sends = @ + 1,
                !.objects = IF err = Resolved
                            THEN MapSet(@, NarKey(filename), NarBody(bytes))
                            ELSE @,
                !.last = S3Call("putNarStream", NarKey(filename), err,
                           IF err = Resolved THEN Returned("undefined")
                           ELSE Thrown(err))]
  /\ UNCHANGED <<storage, sgn, store, conf, http>>

\* ---------------------------------------------------------- initial states

\* The assets a release can start with: some of the pool, with ids in pool
\* order (the listing order) and a creation time each.
AssetPool == <<NarA, NarB, NarinfoName("h1")>>
PoolBody(name) ==
  IF EndsWithNarinfo(name) THEN TextBody(TextRefA) ELSE NarBody(<<1, 2>>)
Rank(S, i) == Cardinality({k \in S : k <= i})
AssetSets ==
  UNION {{{Asset(Rank(S, i), AssetPool[i], created[i], PoolBody(AssetPool[i]))
             : i \in S}
            : created \in [S -> CreatedTimes]}
           : S \in {T \in SUBSET (1..Len(AssetPool)) :
                      Cardinality(T) <= MaxAssets}}

\* The narinfo directories a job can start with.
NarinfoDirs == UNION {[D -> Texts] : D \in SUBSET Hashes}

NoJobState(x) == [j \in Jobs |-> x]

\* No operation of a backend has started.
InitBackends ==
  /\ task = [t \in Tasks |-> IdleTask]
  /\ now = Now0
  /\ started = 0
  /\ lookups = NoJobState(0)
  /\ creates = NoJobState(0)
  /\ idWrites = NoJobState(0)
  /\ putDone = NoJobState({})
  /\ liveDeleted = {}
  /\ narDir = <<>>
  /\ lastPut = [narinfo |-> NoJobState(<<>>), nar |-> <<>>,
                localNar |-> <<>>]

\* No request has reached the router.
InitRouter ==
  store = EmptyStore /\ conf = NoConf /\ http = NoExchange /\ s3 = NoS3

InitCommon == InitBackends /\ sgn = NoSign /\ InitRouter

\* One pruning run of one job, on any release and any narinfo directory;
\* requests to GitHub and reads of the local narinfo files may fail.
InitPrune ==
  /\ InitCommon
  /\ release = RELEASE
  /\ assets \in AssetSets
  /\ nextId = Cardinality(assets) + 1
  /\ releaseId \in {[j \in Jobs |-> IF j = 1 THEN r ELSE Null]
                      : r \in {Null, RELEASE}}
  /\ narinfoDir \in {[j \in Jobs |-> IF j = 1 THEN d ELSE <<>>]
                       : d \in NarinfoDirs}
  /\ jobOf = [t \in Tasks |-> 1]
  /\ env = [net |-> TRUE, fs |-> TRUE, concurrent |-> FALSE, tasks |-> {1},
            maxOps |-> 1, names |-> NarNames]

NextPrune ==
  \/ \E t \in Tasks :
       \/ StartPruneAssets(t)
       \/ ServeLookup(t) \/ ServeCreate(t) \/ ServeList(t) \/ ServeDelete(t)
       \/ LookupResp(t) \/ CreateResp(t) \/ ListPageResp(t)
       \/ ScanReaddir(t) \/ ScanReadFile(t) \/ PruneDeleteResp(t)
  \/ Tick

SpecPrune == InitPrune /\ [][NextPrune]_vars

\* All operations of one storage object, one after the other: each starts
\* when the one before has answered.  Requests to GitHub and calls on the
\* local filesystem may fail.  No narinfo has been put yet.
SeqAssets ==
  {Asset(1, NarA, Now0 - MS_PER_DAY - 1, NarBody(<<1, 2>>)),
   Asset(2, NarinfoName("h1"), Now0 - 1, TextBody(TextRefA))}

InitSeq ==
  /\ InitCommon
  /\ release \in {Null, RELEASE}
  /\ assets = IF release = Null THEN {} ELSE SeqAssets
  /\ nextId = Cardinality(assets) + 1
  /\ releaseId = NoJobState(Null)
  /\ narinfoDir = NoJobState(<<>>)
  /\ jobOf = [t \in Tasks |-> 1]
  /\ env = [net |-> TRUE, fs |-> TRUE, concurrent |-> FALSE, tasks |-> {1},
            maxOps |-> MaxOps, names |-> {NarA, NarC}]

NextSeq ==
  \E t \in Tasks :
    \/ StartHasNarinfo(t) \/ StartGetNarinfo(t) \/ StartPutNarinfo(t)
    \/ StartHasNar(t) \/ StartGetNarStream(t) \/ StartPutNarStream(t)
    \/ StartFetchAllNarinfo(t) \/ StartPruneAssets(t)
    \/ ServeLookup(t) \/ ServeCreate(t) \/ ServeList(t) \/ ServeDelete(t)
    \/ ServeUpload(t) \/ ServeDownload(t)
    \/ LookupResp(t) \/ CreateResp(t) \/ FindPageResp(t) \/ ListPageResp(t)
    \/ HasNarinfoAccess(t) \/ GetNarinfoRead(t) \/ PutNarinfoWrite(t)
    \/ PutNarinfoDeleteResp(t) \/ PutNarinfoUploadResp(t)
    \/ PutNarStreamBuffer(t) \/ PutNarStreamDeleteResp(t)
    \/ PutNarStreamUploadResp(t) \/ GetNarStreamDownloadResp(t)
    \/ FetchExists(t) \/ FetchDownloadResp(t) \/ FetchWrite(t)
    \/ ScanReaddir(t) \/ ScanReadFile(t) \/ PruneDeleteResp(t)
    \/ StartLocalHasNar(t) \/ StartLocalGetNarStream(t)
    \/ StartLocalPutNarStream(t)
    \/ LocalHasNarAccess(t) \/ LocalGetNarAccess(t)
    \/ LocalPutOpen(t) \/ LocalPutPipe(t)
    \/ Complete(t)

SpecSeq == InitSeq /\ [][NextSeq]_vars

\* Two operations in flight at once: uploads and a pruning run, of one
\* storage object or of two jobs that write to the same release.  GitHub
\* and the filesystem answer without faults, so every failure here comes
\* from the interleaving.  The release, when it exists, holds one NAR that
\* is older than every retention window and that no narinfo names yet.
ConcAssets == {Asset(1, NarA, Now0 - MS_PER_DAY - 1, NarBody(<<1, 2>>))}

Init ==
  /\ InitCommon
  /\ release \in {Null, RELEASE}
  /\ assets = IF release = Null THEN {} ELSE ConcAssets
  /\ nextId = Cardinality(assets) + 1
  /\ releaseId = NoJobState(Null)
  /\ narinfoDir = NoJobState(<<>>)
  /\ jobOf \in {[t \in Tasks |-> IF t = 1 THEN 1 ELSE j] : j \in Jobs}
  /\ env = [net |-> FALSE, fs |-> FALSE, concurrent |-> TRUE, tasks |-> Tasks,
            maxOps |-> Cardinality(Tasks), names |-> {NarA}]

Next ==
  \E t \in Tasks :
    \/ StartPutNarinfo(t) \/ StartPutNarStream(t) \/ StartPruneAssets(t)
    \/ ServeLookup(t) \/ ServeCreate(t) \/ ServeList(t) \/ ServeDelete(t)
    \/ ServeUpload(t)
    \/ LookupResp(t) \/ CreateResp(t) \/ FindPageResp(t) \/ ListPageResp(t)
    \/ PutNarinfoWrite(t) \/ PutNarinfoDeleteResp(t)
    \/ PutNarinfoUploadResp(t)
    \/ PutNarStreamBuffer(t) \/ PutNarStreamDeleteResp(t)
    \/ PutNarStreamUploadResp(t)
    \/ ScanReaddir(t) \/ ScanReadFile(t) \/ PruneDeleteResp(t)

Spec == Init /\ [][Next]_vars

\* ------------------------------------------------------------ properties

PruneTasks == {t \in Tasks : task[t].op = "pruneAssets"}
Names(seq) == Range(seq)

\* Some narinfo file of the job has a `URL:` line whose value is the name,
\* bare or behind one `nar/`.
LocallyReferenced(j, name) ==
  \E h \in DOMAIN narinfoDir[j] :
    \E i \in 1..Len(narinfoDir[j][h]) :
      /\ narinfoDir[j][h][i].key = "URL"
      /\ narinfoDir[j][h][i].val \in {Path(0, name), Path(1, name)}

\* The listed assets a pruning run found orphaned: no narinfo asset, and
\* named by no local narinfo file.
Orphans(t) ==
  {a \in Range(task[t].acc) :
     ~EndsWithNarinfo(a.name) /\ ~LocallyReferenced(jobOf[t], a.name)}

\* C1 (as claimed): a pruning run never reports as deleted, and never sends
\* a DELETE for, an asset whose name is the URL value (a leading nar/
\* stripped) of a local narinfo file, whatever the assets, the files and
\* retentionDays.
C1_PruneSparesReferenced ==
  \A t \in PruneTasks :
    /\ \A a \in task[t].delReq : ~LocallyReferenced(jobOf[t], a.name)
    /\ \A n \in Names(task[t].deleted) : ~LocallyReferenced(jobOf[t], n)

\* C3: with retentionDays > 0 an orphan created at or after
\* now - retentionDays days is kept and no DELETE is sent for it, an older
\* one is submitted for deletion; with retentionDays = 0 every orphan is
\* submitted for deletion.  `now` is the clock read when the loop starts.
C3_RetentionBoundary ==
  \A t \in PruneTasks :
    task[t].resKind = "prune" =>
      \A a \in Orphans(t) :
        IF task[t].retentionDays > 0
           /\ a.created >= task[t].cutoffNow
                             - task[t].retentionDays * MS_PER_DAY
        THEN a.name \in Names(task[t].kept) /\ a \notin task[t].delReq
        ELSE a \in task[t].delReq

\* A run with a retention window that kept an orphan created exactly at
\* the cutoff and submitted an older one.
C3_Witness ==
  \E t \in PruneTasks :
    /\ task[t].resKind = "prune"
    /\ task[t].retentionDays > 0
    /\ \E a, b \in Orphans(t) :
         /\ a.created = task[t].cutoffNow - task[t].retentionDays * MS_PER_DAY
         /\ a.name \in Names(task[t].kept)
         /\ b.created < a.created
         /\ b \in task[t].delReq

\* C4 (as claimed): a pruning run one of whose listing pages failed sends
\* no DELETE and ends with an error, not with a result.
C4_ListingFailureIsFatal ==
  \A t \in PruneTasks :
    task[t].listFailed =>
      /\ task[t].delReq = {}
      /\ task[t].pc = "done" => task[t].resKind = "error"

\* C5: an asset whose DELETE failed is reported in kept, not in deleted,
\* and the run still handles every listed asset: when it ends each listed
\* asset that is no narinfo is in one of the three lists.
C5_DeleteFailureIsKept ==
  \A t \in PruneTasks :
    (task[t].pc = "done" /\ task[t].delFail # {}) =>
      /\ task[t].resKind = "prune"
      /\ \A a \in task[t].delFail :
           /\ a.name \in Names(task[t].kept)
           /\ a.name \notin Names(task[t].deleted)
      /\ \A a \in Range(task[t].acc) :
           ~EndsWithNarinfo(a.name) =>
             a.name \in Names(task[t].deleted) \cup Names(task[t].kept)
                        \cup Names(task[t].refNames)

\* A run in which one DELETE failed and a later asset was deleted.
C5_Witness ==
  \E t \in PruneTasks :
    /\ task[t].pc = "done"
    /\ \E a \in task[t].delFail :
         \E b \in Range(task[t].acc) :
           b.id > a.id /\ b.name \in Names(task[t].deleted)

\* C6 (as claimed): hasNarinfo, hasNar and getNarStream answer with an
\* error, not with false or null, when the existence check or the read
\* behind them failed for another reason than not-found.
C6_AbsentMeansNotFound ==
  \A t \in Tasks :
    (/\ task[t].pc = "done"
     /\ task[t].op \in {"hasNarinfo", "hasNar", "getNarStream"}
     /\ task[t].checkFailed)
      => task[t].resKind = "error"

\* C7 (as claimed): hasNarinfo(h) answers true only when a putNarinfo(h, c)
\* of the process completed successfully, or the release holds the narinfo
\* another process put; before that it answers false.
C7_HasOnlyAfterSuccessfulPut ==
  \A t \in Tasks :
    (task[t].pc = "done" /\ task[t].op = "hasNarinfo" /\ task[t].resBool)
      => \/ task[t].hash \in putDone[jobOf[t]]
         \/ \E a \in assets : a.name = NarinfoName(task[t].hash)

\* C9: once this._releaseId is set, no step of a sequential run issues a
\* lookup-by-tag or a create-release request, and no step changes the id.
C9_ResolvedOnce ==
  [][\A j \in Jobs :
       releaseId[j] # Null =>
         /\ lookups'[j] = lookups[j]
         /\ creates'[j] = creates[j]
         /\ releaseId'[j] = releaseId[j]]_vars

\* A second operation that sent asset requests with the id the first one
\* resolved: one lookup in all.
C9_Witness ==
  \E t \in Tasks :
    /\ started = 2
    /\ task[t].pc = "done"
    /\ task[t].assetReqs > 0
    /\ task[t].lookupStatus = 0
    /\ releaseId[jobOf[t]] # Null
    /\ lookups[jobOf[t]] = 1

\* C10 (as claimed): a create-release request follows only a lookup that
\* answered 404; an operation whose creation failed ends with that error.
C10_CreateOnlyOnNotFound ==
  \A t \in Tasks :
    /\ task[t].pc = "create" => task[t].lookupStatus = 404
    /\ task[t].createFailed =>
         /\ task[t].pc = "done" /\ task[t].resKind = "error"
         /\ task[t].assetReqs = 0

\* C2 (as claimed): pruning, interleaved with putNarStream and putNarinfo
\* of the same process or of another job, deletes no asset at a moment
\* when a narinfo, a local file of any job or an asset of the release,
\* names it.
C2_PruneNeverDeletesLive == liveDeleted = {}

\* C8 (as claimed): the operations of one storage object that are in
\* flight together resolve the release once: one lookup, at most one
\* creation, one write of the id, and none of them fails on a release
\* another operation of the same object created.
C8_ResolvedExactlyOnce ==
  /\ \A j \in Jobs : lookups[j] <= 1 /\ creates[j] <= 1 /\ idWrites[j] <= 1
  /\ \A t \in Tasks :
       task[t].createFailed =>
         \A u \in Tasks \ {t} : jobOf[u] # jobOf[t]

\* C11: in putNarStream and in the mirror of putNarinfo the upload POST is
\* sent only when the search for the name has answered: right after a
\* search that found nothing, or after the DELETE for the asset the search
\* found has answered.  A DELETE is sent only for an asset of that name the
\* search found.
C11_SearchDeleteUpload ==
  [][\A t \in Tasks :
       LET a == task[t]
           b == task'[t]
           uploads == {"pni_upload", "pns_upload"}
           deletes == {"pni_delete", "pns_delete"}
       IN /\ (b.pc \in uploads /\ a.pc \notin uploads) =>
               \/ a.pc = "find_page" /\ a.resp # NoResp /\ b.found = NoAsset
               \/ a.pc \in deletes /\ a.resp # NoResp /\ a.found # NoAsset
          /\ (b.pc \in deletes /\ a.pc \notin deletes) =>
               /\ a.pc = "find_page" /\ a.resp # NoResp
               /\ b.found # NoAsset
               /\ b.found.name = b.name
               /\ Target(b).id = b.found.id]_vars

\* An upload that waits for its answer after the asset of the same name
\* was found and its DELETE answered.
C11_Witness ==
  \E t \in Tasks :
    /\ task[t].pc \in {"pni_upload", "pns_upload"}
    /\ task[t].found # NoAsset
    /\ task[t].found.name = task[t].name
    /\ task[t].assetReqs = 3

C13_NoPartialArtifact ==
  \A t \in Tasks :
    (task[t].pc = "done" /\ task[t].resKind = "bool" /\ task[t].resBool) =>
      /\ task[t].op = "local.hasNar" => narDir[task[t].name] \in NarBytes
      /\ task[t].op = "hasNar" =>
           \A a \in assets :
             a.name = task[t].name => a.body.bytes \in NarBytes

\* C14 (as claimed): when two putNarinfo for one hash, or two putNarStream
\* for one filename, of one process ran concurrently and have both ended,
\* both resolved, and the local narinfo file and the asset of that name
\* hold the content of the one that ended last.
C14_LastWriteWins ==
  \A t, u \in Tasks :
    (/\ t # u /\ jobOf[t] = jobOf[u]
     /\ task[t].pc = "done" /\ task[u].pc = "done") =>
      /\ (/\ task[t].op = "putNarinfo" /\ task[u].op = "putNarinfo"
          /\ task[t].hash = task[u].hash) =>
           LET j == jobOf[t]
               h == task[t].hash
           IN /\ task[t].resKind = "void" /\ task[u].resKind = "void"
              /\ narinfoDir[j][h] = lastPut.narinfo[j][h]
              /\ \A a \in assets :
                   a.name = NarinfoName(h) =>
                     a.body = TextBody(lastPut.narinfo[j][h])
      /\ (/\ task[t].op = "putNarStream" /\ task[u].op = "putNarStream"
          /\ task[t].name = task[u].name) =>
           /\ task[t].resKind = "void" /\ task[u].resKind = "void"
           /\ \A a \in assets :
                a.name = task[t].name =>
                  a.body = NarBody(lastPut.nar[task[t].name])

\* C15: a putNarinfo(h, c) that completes, the first or a repeated one,
\* leaves one entry for h: the local file holds c and the release holds at
\* most one asset named <h>.narinfo; and a getNarinfo(h) that answers a
\* text answers the content of that file.
C15_PutTwiceOneEntry ==
  \A t \in Tasks :
    LET j == jobOf[t]
        h == task[t].hash
    IN /\ (/\ task[t].op = "putNarinfo" /\ task[t].pc = "done"
           /\ task[t].resKind = "void") =>
            /\ h \in DOMAIN narinfoDir[j]
            /\ narinfoDir[j][h] = task[t].text
            /\ Cardinality({a \in assets : a.name = NarinfoName(h)}) <= 1
       /\ (/\ task[t].op = "getNarinfo" /\ task[t].pc = "done"
           /\ task[t].resKind = "text") =>
            task[t].resBody = TextBody(narinfoDir[j][h])

\* The second of two putNarinfo("h2", c) has completed: its search found
\* the asset the first one uploaded, with the same content.
C15_Witness ==
  \E t \in Tasks :
    /\ task[t].op = "putNarinfo" /\ task[t].pc = "done"
    /\ task[t].resKind = "void"
    /\ task[t].hash = "h2"
    /\ task[t].found.name = NarinfoName("h2")
    /\ task[t].found.body = TextBody(task[t].text)
    /\ narinfoDir[jobOf[t]]["h2"] = task[t].text
    /\ Cardinality({a \in assets : a.name = NarinfoName("h2")}) = 1

\* The assets of the release that carry the name.
Named(name) == {a \in assets : a.name = name}

C17_FetchAllIsComplete ==
  \A t \in Tasks :
    (/\ task[t].op = "fetchAllNarinfo" /\ task[t].pc = "done"
     /\ task[t].resKind = "count") =>
      \A a \in assets :
        EndsWithNarinfo(a.name) => a.name.stem \in DOMAIN narinfoDir[jobOf[t]]

\* C18 (as claimed): fetchAllNarinfo sends a download request, and writes a
\* file, only for a narinfo asset that has no local file.
C18_FetchNeverOverwrites ==
  \A t \in Tasks :
    task[t].pc \in {"fan_download", "fan_write"} =>
      LET asset == task[t].acc[task[t].idx]
      IN /\ EndsWithNarinfo(asset.name)
         /\ asset.name.stem \notin DOMAIN narinfoDir[jobOf[t]]

\* C19 (as claimed): the number fetchAllNarinfo returns is the number of
\* local narinfo files that were not there when it started and are there
\* when it returns.
C19_FetchCountsNewFiles ==
  \A t \in Tasks :
    (/\ task[t].op = "fetchAllNarinfo" /\ task[t].pc = "done"
     /\ task[t].resKind = "count") =>
      task[t].resNum =
        Cardinality(DOMAIN narinfoDir[jobOf[t]] \ task[t].before)

NamesOf(S) == {a.name : a \in S}

\* The listed assets of a pruning run that are no narinfo.
Candidates(t) == {a \in Range(task[t].acc) : ~EndsWithNarinfo(a.name)}

\* C21 (as claimed): when a pruning run answers, the names of the listed
\* assets that are no narinfo are split over deleted, kept and referenced,
\* each in exactly one list; referenced holds exactly those named by some
\* local narinfo file, kept exactly the orphans created inside the
\* retention window or whose DELETE failed.
C21_ListsPartition ==
  \A t \in PruneTasks :
    task[t].resKind = "prune" =>
      LET D == Names(task[t].deleted)
          K == Names(task[t].kept)
          R == Names(task[t].refNames)
      IN  /\ D \cup K \cup R = NamesOf(Candidates(t))
          /\ D \cap K = {} /\ D \cap R = {} /\ K \cap R = {}
          /\ R = NamesOf({a \in Candidates(t) :
                            LocallyReferenced(jobOf[t], a.name)})
          /\ K = NamesOf({a \in Orphans(t) :
                            \/ /\ task[t].retentionDays > 0
                               /\ a.created >= task[t].cutoffNow
                                    - task[t].retentionDays * MS_PER_DAY
                            \/ a \in task[t].delFail})

\* ------------------------------------------------------- the asset listing

\* Searches and pruning runs of one storage object, one after the other, on
\* any release; every request is answered without a fault, and every
\* request is answered and every answer handled in the end.
InitList ==
  /\ InitCommon
  /\ release \in {Null, RELEASE}
  /\ assets \in (IF release = Null THEN {{}} ELSE AssetSets)
  /\ nextId = Cardinality(assets) + 1
  /\ releaseId = NoJobState(Null)
  /\ narinfoDir \in {[j \in Jobs |-> IF j = 1 THEN d ELSE <<>>]
                       : d \in {<<>>, [h \in {"h1"} |-> TextRefA]}}
  /\ jobOf = [t \in Tasks |-> 1]
  /\ env = [net |-> FALSE, fs |-> FALSE, concurrent |-> FALSE, tasks |-> {1},
            maxOps |-> MaxOps, names |-> {NarA, NarB, NarC}]

NextList ==
  \E t \in Tasks :
    \/ StartHasNar(t) \/ StartPruneAssets(t)
    \/ ServeLookup(t) \/ ServeCreate(t) \/ ServeList(t) \/ ServeDelete(t)
    \/ LookupResp(t) \/ CreateResp(t) \/ FindPageResp(t) \/ ListPageResp(t)
    \/ ScanReaddir(t) \/ ScanReadFile(t) \/ PruneDeleteResp(t)
    \/ Complete(t)

SpecList ==
  /\ InitList
  /\ [][NextList]_vars
  /\ \A t \in Tasks :
       /\ WF_vars(ServeLookup(t) \/ ServeCreate(t) \/ ServeList(t))
       /\ WF_vars(LookupResp(t) \/ CreateResp(t) \/ FindPageResp(t)
                    \/ ListPageResp(t))

\* The pages a listing of n assets asks for when it reads to the end: one
\* past the full pages.
PagesOf(n) == n \div PER_PAGE + 1

\* The place of the asset of that name in the listing, 0 when there is none.
PlaceOf(all, name) ==
  IF \E i \in 1..Len(all) : all[i].name = name
  THEN CHOOSE i \in 1..Len(all) : all[i].name = name
  ELSE 0

\* A task is listing the assets: between the resolution of the release id
\* and the handling of the last page.
InListing(t) ==
  /\ task[t].pc \in {"lookup", "create", "list_page", "find_page"}
  /\ task[t].op \in {"hasNar", "pruneAssets"}

\* C22: the step that ends _listAllAssets has asked for pages 1..n \div
\* PER_PAGE + 1 (one more after each full page, an empty one when the
\* count is a multiple of the page size) and leaves every asset of the
\* release once, in listing order; the step that ends _findAsset leaves the
\* asset of the name searched, or none when there is none, having asked
\* for the pages up to the one that holds it; and a listing that started
\* ends.
C22_ListingComplete ==
  /\ [][\A t \in Tasks :
         /\ (task[t].pc = "list_page" /\ task'[t].pc # "list_page") =>
              /\ task'[t].acc = SortById(assets)
              /\ task'[t].page = PagesOf(Cardinality(assets))
         /\ (task[t].pc = "find_page" /\ task'[t].pc # "find_page") =>
              LET place == PlaceOf(SortById(assets), task[t].name)
              IN  /\ task'[t].found =
                       (IF place = 0 THEN NoAsset
                        ELSE SortById(assets)[place])
                  /\ task'[t].page =
                       (IF place = 0 THEN PagesOf(Cardinality(assets))
                        ELSE (place - 1) \div PER_PAGE + 1)]_vars
  /\ \A t \in Tasks : InListing(t) ~> ~InListing(t)

\* A pruning run listed a release whose asset count is the page size: it
\* asked for a second page, which was empty, and holds every asset.
C22_Witness ==
  \E t \in PruneTasks :
    /\ task[t].pc \notin {"idle", "lookup", "create", "list_page"}
    /\ task[t].delReq = {}
    /\ Len(task[t].acc) = PER_PAGE
    /\ task[t].page = 2
    /\ Range(task[t].acc) = assets

\* ------------------------------------------------- fingerprint and signing

\* A quiet backend: the signing module does not touch it.
InitQuiet ==
  /\ InitBackends
  /\ release = Null
  /\ assets = {}
  /\ nextId = 1
  /\ releaseId = NoJobState(Null)
  /\ narinfoDir = NoJobState(<<>>)
  /\ jobOf = [t \in Tasks |-> 1]
  /\ env = [net |-> FALSE, fs |-> FALSE, concurrent |-> FALSE, tasks |-> {},
            maxOps |-> 0, names |-> {}]

\* fingerprint, called up to MaxCalls times on any record.
InitFingerprint ==
  /\ InitQuiet
  /\ InitRouter
  /\ sgn \in {SignState(r, r, PrivateA64, PublicA) : r \in Records}

SpecFingerprint == InitFingerprint /\ [][Fingerprint]_vars

\* The records that are signed: with no reference, with one plain
\* reference, with a reference that is a comma, and with two references.
SignRecords ==
  {Narinfo(<<"a">>, <<"a">>, 1, refs) :
     refs \in {<<>>, << <<"a">> >>, << <<",">> >>, << <<"a">>, <<";">> >>}}

\* signNarinfo on a record, and verifyNarinfo on it or on a record that
\* differs from it in one field: any private key string with the public
\* key of A, any public key string with the private key of A, and the
\* keys of B.
KeySettings ==
  (PrivateKeyStrings \X {PublicA}) \cup ({PrivateA64} \X PublicKeyStrings)
    \cup {<<PrivateA32, PublicB>>, <<PrivateB64, PublicB>>}

InitSign ==
  /\ InitQuiet
  /\ InitRouter
  /\ sgn \in {SignState(r, o, keys[1], keys[2]) :
                r \in SignRecords, o \in UNION {Changes(x) : x \in SignRecords},
                keys \in KeySettings}
  /\ sgn.other \in Changes(sgn.narinfo)

NextSign == SignNarinfo \/ VerifyNarinfo

SpecSign == InitSign /\ [][NextSign]_vars

\* The record fingerprint was called on at least once.
Fingerprinted == Len(sgn.fps) > 0

\* C23 (as claimed): a record that differs from the fingerprinted one in
\* storePath, narHash, narSize or references has a different fingerprint,
\* whatever characters the strings hold and whatever the references are.
C23_FingerprintInjective ==
  \A i \in 1..Len(sgn.fps) :
    \A r \in Records : r # sgn.narinfo => fingerprint(r) # sgn.fps[i]

\* A record whose strings keep the fields of a fingerprint apart: no `;`
\* in storePath or narHash, and every reference non-empty with no `,`.
Separable(r) ==
  /\ ";" \notin Range(r.storePath)
  /\ ";" \notin Range(r.narHash)
  /\ \A k \in 1..Len(r.references) :
       r.references[k] # <<>> /\ "," \notin Range(r.references[k])

\* C23 (amended): among the records with no `;` in storePath or narHash
\* and with references that are non-empty and hold no `,`, a record that
\* differs from the fingerprinted one has a different fingerprint.
C23_InjectiveOnSeparable ==
  \A i \in 1..Len(sgn.fps) :
    \A r \in Records :
      (Separable(sgn.narinfo) /\ Separable(r) /\ r # sgn.narinfo) =>
        fingerprint(r) # sgn.fps[i]

\* A separable record with a comma for store path and two references was
\* fingerprinted.
C23_Witness ==
  /\ Fingerprinted
  /\ Separable(sgn.narinfo)
  /\ sgn.narinfo.storePath = <<",">>
  /\ Len(sgn.narinfo.references) = 2

\* C24: every call of fingerprint on a record returns `1`, the store path,
\* the hash, the size in decimal and the references joined by `,`, in
\* that order with `;` between them; with no references the text ends in
\* the size and a `;`; and every call returns the same text.
C24_FingerprintFormat ==
  \A i \in 1..Len(sgn.fps) :
    LET r == sgn.narinfo
        head == <<"1", ";">> \o r.storePath \o <<";">> \o r.narHash
                  \o <<";">> \o Decimal(r.narSize) \o <<";">>
    IN /\ sgn.fps[i] = head \o Join(r.references, <<",">>)
       /\ r.references = <<>> => sgn.fps[i] = head
       /\ r.narSize = 12 =>
            SubSeq(head, Len(head) - 2, Len(head)) = <<"1", "2", ";">>
       /\ Len(r.references) = 2 =>
            Join(r.references, <<",">>)
              = r.references[1] \o <<",">> \o r.references[2]
       /\ sgn.fps[i] = sgn.fps[1]

\* fingerprint was called twice on a record with a two-digit size and two
\* references.
C24_Witness ==
  /\ Len(sgn.fps) = 2
  /\ sgn.narinfo.narSize = 12
  /\ sgn.narinfo.references = << <<"a">>, <<",">> >>

\* A private key string and the public key string of the same pair.
KeyPairs ==
  {<<PrivateA64, PublicA>>, <<PrivateA32, PublicA>>, <<PrivateB64, PublicB>>}

\* A private key string and the public key string of the other pair.
UnrelatedPairs ==
  {<<PrivateA64, PublicB>>, <<PrivateA32, PublicB>>, <<PrivateB64, PublicA>>}

\* verifyNarinfo was called on that record with the signature signNarinfo
\* returned.
VerifiedOwn(subject) ==
  /\ sgn.signed.err = ""
  /\ sgn.verified # NoVerdict
  /\ sgn.subject = subject
  /\ sgn.sigString = sgn.signed.sig

\* C25: with the two key strings of one pair, the private one of 64 or of
\* 32 bytes, signNarinfo returns the name in front of the first colon of
\* the private key string, a colon and a base64 text, and verifyNarinfo
\* of the same record with that signature returns true.
C25_SignVerifyRoundTrip ==
  <<sgn.priv, sgn.pub>> \in KeyPairs =>
    /\ sgn.signed # NoSignature =>
         LET colon == IndexOfColon(sgn.priv)
             sig == sgn.signed.sig
         IN /\ sgn.signed.err = ""
            /\ SubSeq(sig, 1, colon) = SubSeq(sgn.priv, 1, colon)
            /\ IndexOfColon(sig) = colon
            /\ \A i \in (colon + 1)..Len(sig) : sig[i] \in Range(B64) \cup {"="}
            /\ Len(FromBase64(SubSeq(sig, colon + 1, Len(sig))))
                 = NIX_KEY_BYTES
    /\ VerifiedOwn("narinfo") => sgn.verified = [err |-> "", ok |-> TRUE]

\* A record with two references was signed with a 64-byte private key and
\* verified with the public key of the pair.
C25_Witness ==
  /\ sgn.priv = PrivateA64 /\ sgn.pub = PublicA
  /\ Len(sgn.narinfo.references) = 2
  /\ VerifiedOwn("narinfo")
  /\ sgn.verified.ok

\* C26 (as claimed): with the two key strings of one pair, verifyNarinfo
\* of a record that differs in one field from the record signed, with the
\* signature of the record signed, returns false.
C26_TamperedIsRejected ==
  (<<sgn.priv, sgn.pub>> \in KeyPairs /\ VerifiedOwn("other")) =>
    sgn.verified = [err |-> "", ok |-> FALSE]

\* The references of a record are non-empty and hold no `,`.
PlainReferences(r) ==
  \A k \in 1..Len(r.references) :
    r.references[k] # <<>> /\ "," \notin Range(r.references[k])

\* C26 (amended): the same, for a record signed and a changed record whose
\* references are non-empty and hold no `,`.
C26_TamperedPlainIsRejected ==
  (/\ <<sgn.priv, sgn.pub>> \in KeyPairs
   /\ VerifiedOwn("other")
   /\ PlainReferences(sgn.narinfo) /\ PlainReferences(sgn.other)) =>
    sgn.verified = [err |-> "", ok |-> FALSE]

\* The signature of a record with one reference was checked against the
\* record with a second reference added, and against the record with a
\* `;` for store path.
C26_Witness ==
  /\ <<sgn.priv, sgn.pub>> \in KeyPairs
  /\ VerifiedOwn("other")
  /\ sgn.narinfo.references = << <<"a">> >>
  /\ PlainReferences(sgn.other)
  /\ \/ Len(sgn.other.references) = 2
     \/ sgn.other.storePath = <<";">>
  /\ ~sgn.verified.ok

\* C27: with a public key string of a pair and a signature string that
\* has a colon, verifyNarinfo returns a boolean and raises nothing; it
\* returns false for the signature the private key of the other pair made
\* and for the signature of 64 zero bytes.
C27_MismatchIsFalse ==
  (/\ sgn.verified # NoVerdict
   /\ sgn.pub \in {PublicA, PublicB}
   /\ IndexOfColon(sgn.sigString) # 0) =>
    /\ sgn.verified.err = ""
    /\ (\/ sgn.sigString = ZeroSignature
        \/ /\ sgn.sigString = sgn.signed.sig
           /\ <<sgn.priv, sgn.pub>> \in UnrelatedPairs) => ~sgn.verified.ok

\* The signature key B made for a record was checked against the record
\* with the public key of A.
C27_Witness ==
  /\ sgn.priv = PrivateB64 /\ sgn.pub = PublicA
  /\ VerifiedOwn("narinfo")
  /\ sgn.verified = [err |-> "", ok |-> FALSE]

\* A key string with no colon, or whose base64 part decodes to a number of
\* bytes outside `sizes`.
Malformed(keyString, sizes) ==
  \/ IndexOfColon(keyString) = 0
  \/ Len(parseKey(keyString).key) \notin sizes

\* C28 (as claimed): signNarinfo with a private key string that has no
\* colon or decodes to neither 32 nor 64 bytes raises the invalid key
\* format error and returns no signature; verifyNarinfo with a public key
\* string that has no colon or does not decode to 32 bytes raises it too.
C28_MalformedKeyIsInvalidFormat ==
  /\ (sgn.signed # NoSignature
      /\ Malformed(sgn.priv, {SEED_BYTES, NIX_KEY_BYTES})) =>
       sgn.signed = [err |-> INVALID_KEY_FORMAT, sig |-> <<>>]
  /\ (sgn.verified # NoVerdict /\ Malformed(sgn.pub, {SEED_BYTES})) =>
       sgn.verified = [err |-> INVALID_KEY_FORMAT, ok |-> FALSE]

\* ------------------------------------------------------ re-signing uploads
\* The four fields of an upload that the signature covers.
Field(key, value) == key \o <<":", " ">> \o value
HeaderLines ==
  << Field(STORE_PATH, <<"a">>), Field(NAR_HASH, <<"a">>),
     Field(NAR_SIZE, <<"1", "2">>), Field(REFERENCES, <<"a", " ", "a">>) >>

\* What may follow them: a signature of somebody else, and a line that
\* ends with a blank.
ForeignSig == SIG_PREFIX \o <<" ">> \o <<"x", ":", "A", "A">>
BlankEndedLine == <<"U", "R", "L", ":", " ", "a", " ">>
MoreLines == {ForeignSig, BlankEndedLine}

\* The bodies that are uploaded: the four fields and up to MaxLines more
\* lines, every line ended by a line feed; one that ends with a signature
\* and an empty line; and two bodies with no content.
NarinfoBodies ==
  {Join(HeaderLines \o more, <<LF>>) \o <<LF>> :
     more \in UNION {[1..n -> MoreLines] : n \in 0..MaxLines}}
    \cup {Join(HeaderLines \o <<ForeignSig, <<>> >>, <<LF>>) \o <<LF>>}
EmptyBodies == {<<>>, <<" ", LF>>}

\* A server with a signing key and no upload secret gets PUTs of narinfos.
InitResign ==
  /\ InitQuiet
  /\ sgn = NoSign
  /\ store = EmptyStore
  /\ s3 = NoS3
  /\ http = NoExchange
  /\ conf = [uploadSecret |-> <<>>, signingKey |-> PrivateA64,
             headers |-> {<<>>}, bodies |-> NarinfoBodies \cup EmptyBodies]

SpecResign == InitResign /\ [][PutNarinfoRoute]_vars

\* The lines of a text: the pieces between its line feeds, without the
\* empty piece after a final line feed.
Lines(text) ==
  LET pieces == Split(text, LF)
  IN IF pieces[Len(pieces)] = <<>> THEN SubSeq(pieces, 1, Len(pieces) - 1)
     ELSE pieces

IsSig(line) == StartsWith(line, SIG_PREFIX)
SigLines(text) == SelectSeq(Lines(text), IsSig)
OtherLines(text) == SelectSeq(Lines(text), LAMBDA l : ~IsSig(l))

\* The value of a Sig line: what follows "Sig: ".
SigValue(line) == SubSeq(line, Len(SIG_PREFIX) + 2, Len(line))

\* The stored text has one Sig line, it is the last line, and it is the
\* signature of the cache's key on the fields of the text.
SignedOnce(text) ==
  /\ Len(SigLines(text)) = 1
  /\ IsSig(Lines(text)[Len(Lines(text))])
  /\ text[Len(text)] = LF
  /\ \A lenient \in BOOLEAN :
       verifyNarinfo(parseNarinfo(text), SigValue(SigLines(text)[1]),
                     PublicA, lenient).ok

\* C29 (as claimed): with a signing key, every stored narinfo has exactly
\* one Sig line, the last line, which is the cache's own signature, and
\* its other lines are the non-Sig lines of the upload, all of them, in
\* order.
C29_ResignedKeepsAllLines ==
  conf.signingKey # <<>> =>
    \A hash \in DOMAIN store.narinfos :
      /\ SignedOnce(store.narinfos[hash])
      /\ OtherLines(store.narinfos[hash]) = OtherLines(store.uploaded[hash])

\* The non-Sig lines of a text without the white space that ends them as a
\* whole: empty lines at the end, and blanks at the end of the last line.
OtherLinesTrimmed(text) ==
  Lines(TrimEnd(Join(OtherLines(text), <<LF>>)) \o <<LF>>)

\* C29 (amended): with a signing key, every stored narinfo has exactly
\* one Sig line, the last line, which is the cache's own signature, and
\* its other lines are the non-Sig lines of the upload in order, without
\* the white space that ends them: empty lines at the end of the upload
\* and blanks at the end of its last line are not kept.
C29_ResignedKeepsLines ==
  conf.signingKey # <<>> =>
    \A hash \in DOMAIN store.narinfos :
      /\ SignedOnce(store.narinfos[hash])
      /\ OtherLines(store.narinfos[hash])
           = OtherLinesTrimmed(store.uploaded[hash])

\* Two uploads were stored, one that carried two Sig lines and one that
\* ended with an empty line.
C29_Witness ==
  /\ conf.signingKey # <<>>
  /\ http.seq = 2 /\ http.status = 200
  /\ \E h1 \in DOMAIN store.narinfos, h2 \in DOMAIN store.narinfos :
       /\ Len(SigLines(store.uploaded[h1])) = 2
       /\ Len(Lines(store.uploaded[h2])) > 0
       /\ Lines(store.uploaded[h2])[Len(Lines(store.uploaded[h2]))] = <<>>
       /\ OtherLines(store.narinfos[h2]) # OtherLines(store.uploaded[h2])

\* --------------------------------------------------------- the upload secret
Secret == <<"s", "1">>
Scheme == <<"B", "e", "a", "r", "e", "r">>

\* The header the clients are told to send (auth.js 6).
BearerHeader(secret) == Scheme \o <<" ">> \o secret

\* The Authorization headers of the requests: none, the one of the secret,
\* ones of another, a longer and a shorter secret, the scheme in lower and
\* in upper case, two blanks and a tab after the scheme, no blank after
\* it, another scheme, and the bare secret.
AuthHeaders ==
  { <<>>,
    BearerHeader(Secret),
    BearerHeader(<<"s", "2">>),
    BearerHeader(<<"s", "1", "1">>),
    BearerHeader(<<"s">>),
    BEARER \o <<" ">> \o Secret,
    <<"B", "E", "A", "R", "E", "R", " ">> \o Secret,
    Scheme \o <<" ", " ">> \o Secret,
    Scheme \o <<"\t">> \o Secret,
    Scheme \o Secret,
    <<"B", "a", "s", "i", "c", " ">> \o Secret,
    Secret }

\* A server without a signing key, with or without an upload secret, gets
\* requests with these headers.
InitAuth ==
  /\ InitQuiet
  /\ sgn = NoSign
  /\ store = EmptyStore
  /\ s3 = NoS3
  /\ http = NoExchange
  /\ \E secret \in {<<>>, Secret} :
       conf = [uploadSecret |-> secret, signingKey |-> <<>>,
               headers |-> AuthHeaders,
               bodies |-> {Join(HeaderLines, <<LF>>) \o <<LF>>, <<>>}]

NextAuth ==
  \/ PutNarinfoRoute
  \/ PutNarRoute
  \/ HeadNarinfoRoute
  \/ GetNarinfoRoute
  \/ GetNarRoute

SpecAuth == InitAuth /\ [][NextAuth]_vars

\* The router answers a request in this step.
Answers == http'.seq = http.seq + 1

\* Without a secret every PUT passes the middleware, and HEAD and GET
\* never meet it.
NotChecked ==
  /\ http'.method = "PUT" /\ conf.uploadSecret = <<>> => http'.status # 401
  /\ http'.method \in {"HEAD", "GET"} => http'.status # 401

\* C30 (as claimed): with an upload secret, a PUT whose Authorization
\* header is missing or is anything but `Bearer <secret>` is answered 401
\* and leaves the storage as it was; without a secret every PUT is
\* admitted; HEAD and GET are never answered 401.
C30_OnlyBearerSecretAdmitted ==
  [][Answers =>
       /\ ( /\ http'.method = "PUT"
            /\ conf.uploadSecret # <<>>
            /\ http'.auth # BearerHeader(conf.uploadSecret) )
          => http'.status = 401 /\ store' = store
       /\ NotChecked]_vars

\* The header is the word Bearer in any case of its letters, then white
\* space, then the secret and nothing else.
Presents(authHeader, secret) ==
  LET n == Len(Scheme)
      from == Len(authHeader) - Len(secret) + 1
  IN /\ from > n + 1
     /\ \A i \in 1..n : Lower(authHeader[i]) = Lower(Scheme[i])
     /\ \A i \in (n + 1)..(from - 1) : authHeader[i] \in Whitespace
     /\ SubSeq(authHeader, from, Len(authHeader)) = secret

\* C30 (amended): with an upload secret, a PUT whose Authorization header
\* is missing or is not the word Bearer, in any case of its letters,
\* followed by white space and the exact secret, is answered 401 and leaves
\* the storage as it was; without a secret every PUT is admitted; HEAD and
\* GET are never answered 401.
C30_OnlySecretAdmitted ==
  [][Answers =>
       /\ ( /\ http'.method = "PUT"
            /\ conf.uploadSecret # <<>>
            /\ ~Presents(http'.auth, conf.uploadSecret) )
          => http'.status = 401 /\ store' = store
       /\ NotChecked]_vars

\* With a secret, after an upload that was admitted, a PUT with another
\* secret was answered 401 and the storage holds what it held.
C30_Witness ==
  /\ conf.uploadSecret = Secret
  /\ http.seq = 2
  /\ http.method = "PUT"
  /\ http.auth = BearerHeader(<<"s", "2">>)
  /\ http.status = 401
  /\ DOMAIN store.narinfos # {}

\* ------------------------------------------------- the S3 backend, the factory
\* The values of STORAGE_BACKEND the configuration documents (config.js 10).
StorageBackends == {"local", "s3", "github-releases"}

\* The server makes its backend from the configuration; a backend of class
\* S3Storage then serves calls against an empty bucket.
InitS3 ==
  /\ InitQuiet
  /\ sgn = NoSign
  /\ store = EmptyStore
  /\ conf = NoConf
  /\ http = NoExchange
  /\ \E backend \in StorageBackends : s3 = [NoS3 EXCEPT !.config = backend]

NextS3 ==
  \/ CreateStorage
  \/ S3HasNarinfo
  \/ S3GetNarinfo
  \/ S3PutNarinfo
  \/ S3HasNar
  \/ S3GetNarStream
  \/ S3PutNarStream

SpecS3 == InitS3 /\ [][NextS3]_vars

\* The error is of a not-found class, or carries the status 404.
NotFoundError(err) ==
  err.name \in {"NotFound", "NoSuchKey"} \/ err.status = 404

\* What each probe answers for an absent object.
AbsentAnswer(op) == IF op \in {"hasNarinfo", "hasNar"} THEN "false" ELSE "null"

\* C31: hasNarinfo, hasNar, getNarinfo and getNarStream of the S3 backend
\* answer false (null) exactly when the client raised a not-found error or
\* one with status 404; any other error of the client is thrown to the
\* caller as it is.
C31_AbsentOnlyOnNotFound ==
  s3.last.op \in {"hasNarinfo", "hasNar", "getNarinfo", "getNarStream"} =>
    /\ s3.last.outcome = Returned(AbsentAnswer(s3.last.op))
         <=> NotFoundError(s3.last.err)
    /\ s3.last.err # Resolved /\ ~NotFoundError(s3.last.err)
         => s3.last.outcome = Thrown(s3.last.err)
    /\ s3.last.err = Resolved
         => /\ ~s3.last.outcome.threw
            /\ s3.last.outcome.value # AbsentAnswer(s3.last.op)

\* After an object was stored, hasNarinfo of another hash met NotFound and
\* answered false.
C31_Witness ==
  /\ s3.sends = 2
  /\ DOMAIN s3.objects # {}
  /\ s3.last.op = "hasNarinfo"
  /\ s3.last.err = Reply("NotFound", 404)
  /\ s3.last.outcome = Returned("false")

\* C32: createStorage returns the S3 backend for `s3`, the GitHub Releases
\* backend, which has pruneAssets and fetchAllNarinfo, for
\* `github-releases`, and the local backend for `local`.
C32_BackendAsConfigured ==
  s3.backend # "none" =>
    /\ s3.config = "s3" => s3.backend = S3_STORAGE
    /\ s3.config = "local" => s3.backend = LOCAL_STORAGE
    /\ s3.config = "github-releases"
         => /\ s3.backend = GITHUB_RELEASES_STORAGE
            /\ {"pruneAssets", "fetchAllNarinfo"} \subseteq MethodsOf(s3.backend)

\* ------------------------------------------------- the DELETEs of a pruning run
\* The listed asset is one the run has to delete: no narinfo, not in the
\* set of referenced names the run collected, and not created inside the
\* retention window.
Doomed(t, a) ==
  /\ ~EndsWithNarinfo(a.name)
  /\ AsPath(a.name) \notin task[t].referenced
  /\ ~( /\ task[t].retentionDays > 0
        /\ a.created >= task[t].cutoffNow
                           - task[t].retentionDays * MS_PER_DAY )

InitFetchPruneWith(faulty, dirs) ==
  /\ InitCommon
  /\ release = RELEASE
  /\ assets \in AssetSets
  /\ nextId = Cardinality(assets) + 1
  /\ releaseId = NoJobState(Null)
  /\ narinfoDir \in {[j \in Jobs |-> IF j = 1 THEN d ELSE <<>>] : d \in dirs}
  /\ jobOf = [t \in Tasks |-> 1]
  /\ env = [net |-> faulty, fs |-> faulty, concurrent |-> TRUE,
            tasks |-> Tasks, maxOps |-> Cardinality(Tasks), names |-> NarNames]

InitFetchPrune ==
  InitFetchPruneWith(TRUE, {<<>>, [h \in {"h1"} |-> TextRefB]})

NextFetchPrune ==
  \E t \in Tasks :
    \/ StartFetchAllNarinfo(t) \/ StartPruneAfterFetch(t)
    \/ ServeLookup(t) \/ ServeCreate(t) \/ ServeList(t) \/ ServeDelete(t)
    \/ ServeDownload(t)
    \/ LookupResp(t) \/ CreateResp(t) \/ ListPageResp(t)
    \/ FetchExists(t) \/ FetchDownloadResp(t) \/ FetchWrite(t)
    \/ ScanReaddir(t) \/ ScanReadFile(t) \/ PruneDeleteResp(t)

SpecFetchPrune == InitFetchPrune /\ [][NextFetchPrune]_vars

\* Some narinfo asset of the release has a `URL:` line whose value is the
\* name, bare or behind one `nar/`.
ReleaseReferenced(name) ==
  \E n \in assets :
    /\ EndsWithNarinfo(n.name)
    /\ \E i \in 1..Len(n.body.text) :
         /\ n.body.text[i].key = "URL"
         /\ n.body.text[i].val \in {Path(0, name), Path(1, name)}

\* C34 (as claimed): when pruneAssets runs after fetchAllNarinfo returned,
\* in one process and with no other writer, no asset leaves the release
\* that a narinfo asset of the release names in its URL line, whatever
\* retentionDays is.
C34_PruneAfterFetchSparesReferenced ==
  [][\A a \in assets \ assets' : ~ReleaseReferenced(a.name)]_vars

\* ------------------------------------------- pruning and a replaced asset
\* The DELETE of pruning run t is answered in this step.
PruneDeleteServed(t) ==
  /\ task[t].op = "pruneAssets"
  /\ task[t].pc = "prune_delete"
  /\ task[t].resp = NoResp
  /\ task'[t].resp # NoResp

\* C35: a DELETE of a pruning run removes no asset but one of its own
\* listing, id for id: an asset that putNarStream created under a listed
\* name after the listing was taken stays, the DELETE for the vanished
\* asset fails, and the name is reported in kept, not in deleted.
C35_PruneSparesReplacement ==
  [][\A t \in Tasks :
       /\ PruneDeleteServed(t) =>
            /\ assets \ assets' \subseteq Range(task[t].acc)
            /\ task[t].acc[task[t].idx] \notin assets
                 => assets' = assets /\ ~Ok(task'[t].resp)
       /\ \A a \in task'[t].delFail :
            /\ a.name \in Names(task'[t].kept)
            /\ a.name \notin Names(task'[t].deleted)]_vars

\* A pruning run answered with a.nar.xz in kept after its DELETE failed,
\* and the release holds an asset of that name that the run did not list.
C35_Witness ==
  \E t \in PruneTasks :
    /\ task[t].resKind = "prune"
    /\ \E a \in task[t].delFail :
         /\ a.name \in Names(task[t].kept)
         /\ \E b \in assets :
              b.name = a.name /\ b.id # a.id /\ b \notin Range(task[t].acc)

\* --------------------------------------------------- the mirror of putNarinfo
\* C36 (as claimed): a putNarinfo(h, c) of the GitHub backend that returns
\* leaves an asset <h>.narinfo with content c on the release, and it does
\* not return when the upload of the asset was answered with a failure.
C36_PutNarinfoReachesRelease ==
  \A t \in Tasks :
    (/\ task[t].op = "putNarinfo" /\ task[t].pc = "done"
     /\ task[t].resKind = "void") =>
      /\ \E a \in assets :
           /\ a.name = NarinfoName(task[t].hash)
           /\ a.body = TextBody(task[t].text)
      /\ Ok(task[t].resp)

\* ------------------------------------------------ a putNarStream that fails
\* C37 (as claimed): a putNarStream(name, ..) of the GitHub backend that
\* raises leaves the artifact that was stored under name: the asset its
\* search found is still on the release, or one of that name with the same
\* content.
C37_FailedPutKeepsArtifact ==
  \A t \in Tasks :
    (/\ task[t].op = "putNarStream" /\ task[t].pc = "done"
     /\ task[t].resKind = "error" /\ task[t].found # NoAsset) =>
      \E a \in assets :
        a.name = task[t].name /\ a.body = task[t].found.body

\* ------------------------------------------------------- the keys of a put
\* One storage object whose NAR filenames include one that ends in
\* `.narinfo` (PUT /nar/:filename passes any filename on): puts and the
\* reads of NARs, one after the other.
InitKeys ==
  /\ InitCommon
  /\ release \in {Null, RELEASE}
  /\ assets = IF release = Null THEN {} ELSE SeqAssets
  /\ nextId = Cardinality(assets) + 1
  /\ releaseId = NoJobState(Null)
  /\ narinfoDir = NoJobState(<<>>)
  /\ jobOf = [t \in Tasks |-> 1]
  /\ env = [net |-> TRUE, fs |-> TRUE, concurrent |-> FALSE, tasks |-> {1},
            maxOps |-> MaxOps, names |-> {NarA, NarinfoName("h1")}]

NextKeys ==
  \E t \in Tasks :
    \/ StartPutNarinfo(t) \/ StartPutNarStream(t)
    \/ StartHasNar(t) \/ StartGetNarStream(t)
    \/ ServeLookup(t) \/ ServeCreate(t) \/ ServeList(t) \/ ServeDelete(t)
    \/ ServeUpload(t) \/ ServeDownload(t)
    \/ LookupResp(t) \/ CreateResp(t) \/ FindPageResp(t)
    \/ PutNarinfoWrite(t) \/ PutNarinfoDeleteResp(t)
    \/ PutNarinfoUploadResp(t)
    \/ PutNarStreamBuffer(t) \/ PutNarStreamDeleteResp(t)
    \/ PutNarStreamUploadResp(t) \/ GetNarStreamDownloadResp(t)
    \/ Complete(t)

SpecKeys == InitKeys /\ [][NextKeys]_vars

\* What hasNarinfo(hash) and getNarinfo(hash) of job j read: the local file.
LocalNarinfo(j, hash) ==
  IF hash \in DOMAIN narinfoDir[j] THEN {narinfoDir[j][hash]} ELSE {}
\* The assets a step took from the release or gave to it.
Touched == (assets \ assets') \cup (assets' \ assets)
HoldsNar(a) == a.body.bytes # <<>>
HoldsNarinfo(a) == a.body.text # <<>>

\* C38 (as claimed): the steps of a putNarinfo(h, c) leave the narinfo of
\* every other hash and every NAR as they were, and the steps of a
\* putNarStream(f, b) leave every narinfo and the NAR of every other filename
\* as they were; on the release a put touches the asset of its own name
\* only, a putNarinfo no asset that holds a NAR and a putNarStream none that
\* holds a narinfo.
C38_PutsAffectOwnKey ==
  [][\A t \in Tasks :
       /\ (task[t].op = "putNarinfo" /\ task'[t].op = "putNarinfo") =>
            /\ \A j \in Jobs : \A h \in Hashes \ {task[t].hash} :
                 LocalNarinfo(j, h)' = LocalNarinfo(j, h)
            /\ narDir' = narDir
            /\ \A a \in Touched :
                 a.name = NarinfoName(task[t].hash) /\ ~HoldsNar(a)
       /\ (task[t].op = "putNarStream" /\ task'[t].op = "putNarStream") =>
            /\ narinfoDir' = narinfoDir
            /\ narDir' = narDir
            /\ \A a \in Touched :
                 a.name = task[t].name /\ ~HoldsNarinfo(a)]_vars

\* ------------------------------------------- the signature of a stored text
\* Uploads whose References line is missing, empty, names one path or names
\* two; that carry a Sig line or none; and that end with a line feed or
\* without one.
RecordLines ==
  << Field(STORE_PATH, <<"a">>), Field(NAR_HASH, <<"a">>),
     Field(NAR_SIZE, <<"1", "2">>) >>
ReferencesLines ==
  { <<>>, <<Field(REFERENCES, <<>>)>>, <<Field(REFERENCES, <<"a">>)>>,
    <<Field(REFERENCES, <<"a", " ", "a">>)>> }
SigTails == { <<>>, <<ForeignSig>> }
SignedBodies ==
  {Join(RecordLines \o refs \o sigs, <<LF>>) \o end :
     refs \in ReferencesLines, sigs \in SigTails, end \in {<<>>, <<LF>>}}

InitSigned ==
  /\ InitQuiet
  /\ sgn = NoSign
  /\ store = EmptyStore
  /\ s3 = NoS3
  /\ http = NoExchange
  /\ conf = [uploadSecret |-> <<>>, signingKey |-> PrivateA64,
             headers |-> {<<>>}, bodies |-> SignedBodies]

SpecSigned == InitSigned /\ [][PutNarinfoRoute]_vars

\* C39: with a signing key, the text stored by PUT /:hash.narinfo parses to
\* the record the uploaded body parses to, it has a Sig line, and every Sig
\* line it has verifies the fingerprint of that record against the public
\* key of the cache.
C39_StoredSigSignsStoredRecord ==
  conf.signingKey # <<>> =>
    \A hash \in DOMAIN store.narinfos :
      LET stored == store.narinfos[hash]
          sigs == SigLines(stored)
      IN /\ parseNarinfo(stored) = parseNarinfo(store.uploaded[hash])
         /\ Len(sigs) >= 1
         /\ \A i \in 1..Len(sigs), lenient \in BOOLEAN :
              verifyNarinfo(parseNarinfo(stored), SigValue(sigs[i]),
                            PublicA, lenient).ok

\* Two uploads were stored: one with no Sig line and no reference, one with
\* a Sig line and two references.
C39_Witness ==
  /\ conf.signingKey # <<>>
  /\ http.status = 200
  /\ \E h1 \in DOMAIN store.narinfos, h2 \in DOMAIN store.narinfos :
       /\ SigLines(store.uploaded[h1]) = <<>>
       /\ parseNarinfo(store.narinfos[h1]).references = <<>>
       /\ SigLines(store.uploaded[h2]) # <<>>
       /\ Len(parseNarinfo(store.narinfos[h2]).references) = 2

====
